---- MODULE Spec2Model ----
(***************************************************************************)
(* Deck search (brute_force_decks), composition counter                    *)
(* (count_possible_decks), deck rules (DeckRules) and ranking (rank_decks) *)
(* of mtg_optimize, src/src/mtg_optimize/search.py, and the game simulator *)
(* with its mana-payment planner, src/src/mtg_optimize/simulator.py, as a  *)
(* state machine.                                                          *)
(*                                                                         *)
(* Python's Optional values are sequences of length at most one: None is   *)
(* <<>> and a value v is <<v>>.  Slots are 0-based as in the source; a     *)
(* Python list l is a sequence, and l[i] is written l[i + 1].              *)
(***************************************************************************)
EXTENDS Integers, Sequences, FiniteSets, TLC

\* ---------------------------------------------------------------- bounds
MaxChoices == 2     \* longest choice sequence
MaxCount   == 2     \* largest max_count of a CardChoice
MaxDeck    == 3     \* largest deck_size
MaxRule    == 1     \* largest configured DeckRules bound
MaxLimit   == 2     \* largest brute_force_limit
MaxSeed    == 1     \* seeds are 0..MaxSeed
MaxCutoff  == 2     \* largest estimate_cutoff
MaxTime    == 2     \* the monotonic clock runs from 0 to MaxTime seconds
MaxLands   == 3     \* most land permanents handed to the payment planner
MaxKinds   == 3     \* most distinct cards in a simulated deck
MaxCopies  == 6     \* most copies of one card in a simulated deck
MinCards   == 6     \* smallest simulated deck
MaxCards   == 8     \* largest simulated deck
MaxTurns   == 3     \* most turns of a simulated game
MaxRanked  == 3     \* most decks handed to rank_decks
MaxScore   == 2     \* average scores are 0..MaxScore

\* The size of the opening hand (simulator.py, line 117).
OpeningHand == 7

\* ------------------------------------------------------------- optionals
None == <<>>
Some(v) == <<v>>
Val(o) == o[1]
Min(a, b) == IF a < b THEN a ELSE b

\* ------------------------------------------------------------------ cards
\* Card.type_line, lower-cased, as its set of words.
TypeLine(card) ==
    CASE card \in {"Forest", "Mountain", "Grove", "Wastes", "Taiga"} -> {"land"}
      [] card \in {"Elf", "Golem"} -> {"creature"}
      [] card = "Arbor"  -> {"land", "creature"}
      [] OTHER           -> {"instant"}

is_land(card) == "land" \in TypeLine(card)
is_creature(card) == "creature" \in TypeLine(card)

\* The cards of the simulator, by name, and their Card fields.  Golem has a
\* converted mana cost only, as the cards of a JSON configuration have.
\* Procession is what fetch_card_metadata makes of the printed cost
\* {2/W}{2/W}{2/W} with cmc 6: no colored symbol, and one unit of generic
\* cost for each hybrid symbol (decklist.py, lines 69..86 and 116..122).
Lands == {"Forest", "Mountain", "Grove", "Wastes"}
Spells == {"Elf", "Golem", "Bolt", "Growth", "Charm", "Seer"}

mana_cost(card) ==
    CASE card \in {"Elf", "Bolt", "Growth"} -> 1
      [] card \in {"Golem", "Seer"} -> 2
      [] card = "Charm" -> 3
      [] card = "Procession" -> 6
      [] OTHER -> 0

mana_cost_symbols(card) ==
    CASE card \in {"Elf", "Growth"} -> <<"G">>
      [] card = "Bolt"  -> <<"R">>
      [] card = "Charm" -> <<"G", "R">>
      [] card = "Seer"  -> <<"C">>
      [] OTHER -> <<>>

generic_cost(card) ==
    CASE card \in {"Charm", "Seer"} -> 1
      [] card = "Procession" -> 3
      [] OTHER -> 0

produced_mana(card) ==
    CASE card \in {"Forest", "Arbor"} -> <<"G">>
      [] card = "Mountain" -> <<"R">>
      [] card \in {"Grove", "Taiga"} -> <<"G", "R">>
      [] OTHER -> <<>>

enters_tapped(card) == card = "Grove"

tags(card) ==
    CASE card = "Bolt"  -> {"removal"}
      [] card = "Charm" -> {"card_draw"}
      [] card = "Seer"  -> {"counter", "finisher"}
      [] OTHER -> {}

\* ------------------------------------------------------------- DeckRules
\* Mutant of validate: the creature bounds are never looked at.
validate_lands_only(rules, lands, creatures) ==
    IF rules.min_lands # None /\ lands < Val(rules.min_lands) THEN FALSE
    ELSE IF rules.max_lands # None /\ lands > Val(rules.max_lands) THEN FALSE
    ELSE TRUE

\* Mutant of validate: a bound of 0 is taken for an absent one.
validate_zero_absent(rules, lands, creatures) ==
    LET set(b) == b # None /\ Val(b) # 0
    IN IF set(rules.min_lands) /\ lands < Val(rules.min_lands) THEN FALSE
       ELSE IF set(rules.max_lands) /\ lands > Val(rules.max_lands) THEN FALSE
       ELSE IF set(rules.min_creatures) /\ creatures < Val(rules.min_creatures) THEN FALSE
       ELSE IF set(rules.max_creatures) /\ creatures > Val(rules.max_creatures) THEN FALSE
       ELSE TRUE

validate(rules, lands, creatures) ==
    IF rules.min_lands # None /\ lands < Val(rules.min_lands) THEN FALSE
    ELSE IF rules.max_lands # None /\ lands > Val(rules.max_lands) THEN FALSE
    ELSE IF rules.min_creatures # None /\ creatures < Val(rules.min_creatures) THEN FALSE
    ELSE IF rules.max_creatures # None /\ creatures > Val(rules.max_creatures) THEN FALSE
    ELSE TRUE

\* ------------------------------------------------------- random.Random
\* The generator is a deterministic function of its seed: a state, and a
\* step that yields the next state.  random.Random(None) seeds from the
\* operating system's entropy: any state.
RngStates == 0..15
SeedRng(s) == (7 * s + 3) % 16
NextRng(r) == (5 * r + 3) % 16
\* _randbelow(n) after the step to state r.
RandBelow(r, n) == (r \div 2) % n

\* Mutant of InitialRng: the seed is not passed to random.Random.
InitialRngUnseeded(sd) == RngStates

\* random.Random(seed): the states the new generator may be in.
InitialRng(sd) == IF sd = None THEN RngStates ELSE {SeedRng(Val(sd))}

\* random.shuffle: for i in reversed(range(1, len(x))): j = randbelow(i + 1);
\* x[i], x[j] = x[j], x[i].  Returns the shuffled list and the generator.
RECURSIVE ShuffleFrom(_, _, _)
ShuffleFrom(x, r, i) ==
    IF i < 1 THEN [list |-> x, rng |-> r]
    ELSE LET r2 == NextRng(r)
             j  == RandBelow(r2, i + 1)
             y  == [x EXCEPT ![i + 1] = x[j + 1], ![j + 1] = x[i + 1]]
         IN ShuffleFrom(y, r2, i - 1)

Shuffle(x, r) == ShuffleFrom(x, r, Len(x) - 1)

\* ------------------------------------------------------------------ state
VARIABLES
    choices,            \* the CardChoice sequence passed in
    deck_size,          \* config.deck_size
    rules,              \* config.deck_rules, None or a DeckRules record
    limit,              \* config.brute_force_limit, None or an integer
    seed,               \* config.simulation.seed, None or an integer
    observer,           \* whether a progress callback was passed
    pc,                 \* "init", "search", "finish", "done"
    rng,                \* state of the search's random.Random
    shuffled_choices,   \* the shuffled copy of choices
    stack,              \* the active backtrack calls, innermost last
    chosen,             \* the counts chosen for slots 0..len-1
    decks,              \* the result list
    counter,            \* number of valid decks collected
    last_report,        \* monotonic time of the last progress call
    now,                \* the monotonic clock, in seconds
    calls,              \* the progress calls made so far, in order
    runs,               \* completed brute_force_decks invocations
    prev_decks,         \* the result of the previous invocation
    deck_count,         \* the DeckCount of count_possible_decks, or None
    deck,               \* the deck a game is played with, as (card, count) items
    turns,              \* the number of turns to simulate
    capture_trace,      \* whether _simulate keeps a trace
    self_rng,           \* state of the simulator's random.Random
    rng0,               \* the state self_rng had before the first game
    step,               \* where _simulate stands: "idle", "start", "turn",
                        \* "land", "cast", "done", "IndexError"
    library,            \* the shuffled deck, the top card last
    hand,               \* the cards in hand
    battlefield,        \* the spells cast so far
    lands_in_play,      \* the LandPermanents, in the order they were played
    game_result,        \* the running counters of the GameResult
    turn,               \* _turn
    this_turn,          \* the locals of the current turn
    cast_plan,          \* what is left of cast_plan
    casted_indices,     \* the hand indices cast this turn
    trace_turns,        \* the TurnTraces collected
    first_run,          \* result and generator state of the game before
    last_call,          \* the planner call of the last step, if it made one
    candidates,         \* the decks handed to rank_decks, with their scores
    processed,          \* the number of decks rank_decks has simulated
    summaries,          \* the summaries rank_decks has collected
    ranked              \* what rank_decks returned, or None

inputs == <<choices, deck_size, rules, limit, seed, observer>>
search == <<rng, shuffled_choices, stack, chosen, decks, counter>>
vars == <<choices, deck_size, rules, limit, seed, observer, pc, rng,
          shuffled_choices, stack, chosen, decks, counter, last_report, now,
          calls, runs, prev_decks, deck_count, deck, turns, capture_trace,
          self_rng, rng0, step, library, hand, battlefield, lands_in_play,
          game_result, turn, this_turn, cast_plan, casted_indices, trace_turns,
          first_run, last_call, candidates, processed, summaries,
          ranked>>
\* The search leaves the simulator alone, and the simulator the search.
played == <<deck, turns, capture_trace, self_rng, rng0, step, library, hand,
            battlefield, game_result, turn, this_turn, cast_plan,
            casted_indices, trace_turns, first_run>>
ranking == <<candidates, processed, summaries, ranked>>
simulator == <<played, lands_in_play, last_call, ranking>>
searcher == <<choices, deck_size, rules, limit, seed, observer, pc, rng,
              shuffled_choices, stack, chosen, decks, counter, last_report,
              now, calls, runs, prev_decks, deck_count>>

\* ----------------------------------------------------------------- inputs
Cards == {"Forest", "Elf", "Bolt"}

\* Choices that pass the callers' validation: 0 <= min_count <= max_count.
ChoicePool ==
    {c \in [card : Cards, min_count : 0..MaxCount, max_count : 0..MaxCount] :
        c.min_count <= c.max_count}

ChoiceSeqs == UNION {[1..n -> ChoicePool] : n \in 0..MaxChoices}

RuleBounds == {None} \cup {Some(v) : v \in 0..MaxRule}

RulesSet ==
    [min_lands : RuleBounds, max_lands : RuleBounds,
     min_creatures : RuleBounds, max_creatures : RuleBounds]

Limits == {None} \cup {Some(v) : v \in 0..MaxLimit}
Seeds == {None} \cup {Some(v) : v \in 0..MaxSeed}

\* ---------------------------------------------- brute_force_decks: tables
\* total_cards and the suffix bounds, indexed by slot (0..total_cards).
total_cards == Len(shuffled_choices)

min_suffix(cs) ==
    LET f[idx \in 0..Len(cs)] ==
            IF idx = Len(cs) THEN 0 ELSE f[idx + 1] + cs[idx + 1].min_count
    IN f

max_suffix(cs) ==
    LET f[idx \in 0..Len(cs)] ==
            IF idx = Len(cs) THEN 0 ELSE f[idx + 1] + cs[idx + 1].max_count
    IN f

land_min_suffix(cs) ==
    LET f[idx \in 0..Len(cs)] ==
            IF idx = Len(cs) THEN 0
            ELSE IF is_land(cs[idx + 1].card)
                 THEN f[idx + 1] + cs[idx + 1].min_count
                 ELSE f[idx + 1]
    IN f

land_max_suffix(cs) ==
    LET f[idx \in 0..Len(cs)] ==
            IF idx = Len(cs) THEN 0
            ELSE IF is_land(cs[idx + 1].card)
                 THEN f[idx + 1] + cs[idx + 1].max_count
                 ELSE f[idx + 1]
    IN f

creature_min_suffix(cs) ==
    LET f[idx \in 0..Len(cs)] ==
            IF idx = Len(cs) THEN 0
            ELSE IF is_creature(cs[idx + 1].card)
                 THEN f[idx + 1] + cs[idx + 1].min_count
                 ELSE f[idx + 1]
    IN f

creature_max_suffix(cs) ==
    LET f[idx \in 0..Len(cs)] ==
            IF idx = Len(cs) THEN 0
            ELSE IF is_creature(cs[idx + 1].card)
                 THEN f[idx + 1] + cs[idx + 1].max_count
                 ELSE f[idx + 1]
    IN f

\* target = config.brute_force_limit or 0
target == IF limit # None /\ Val(limit) # 0 THEN Val(limit) ELSE 0

\* range(a, b + 1) as a list
Range(a, b) == [i \in 1..(b - a + 1) |-> a + i - 1]

\* report(force, total_override), called with counter = cnt: the progress
\* calls and last_report after it.
report(force, total_override, cnt) ==
    IF ~observer THEN [calls |-> calls, last_report |-> last_report]
    ELSE LET total == IF total_override # None THEN Val(total_override) ELSE target
         IN IF force \/ total = 0 \/ now - last_report >= 1 \/ cnt = total
            THEN [calls |-> Append(calls, [completed |-> cnt, total |-> total,
                                           at |-> now, force |-> force]),
                  last_report |-> now]
            ELSE [calls |-> calls, last_report |-> last_report]

rules_pruned(lands, creatures, slot) ==
    IF rules = None THEN FALSE
    ELSE LET r == Val(rules)
             min_lands_left == land_min_suffix(shuffled_choices)[slot]
             max_lands_left == land_max_suffix(shuffled_choices)[slot]
             min_creatures_left == creature_min_suffix(shuffled_choices)[slot]
             max_creatures_left == creature_max_suffix(shuffled_choices)[slot]
         IN IF r.min_lands # None /\ lands + max_lands_left < Val(r.min_lands) THEN TRUE
            ELSE IF r.max_lands # None /\ lands + min_lands_left > Val(r.max_lands) THEN TRUE
            ELSE IF r.min_creatures # None
                    /\ creatures + max_creatures_left < Val(r.min_creatures) THEN TRUE
            ELSE IF r.max_creatures # None
                    /\ creatures + min_creatures_left > Val(r.max_creatures) THEN TRUE
            ELSE FALSE

\* deck = DeckList(); for idx, count in enumerate(chosen):
\*     deck[shuffled_choices[idx].card] = count
RECURSIVE BuildDeck(_, _, _)
BuildDeck(cs, ch, n) ==
    IF n = 0 THEN [c \in {} |-> 0]
    ELSE LET d == BuildDeck(cs, ch, n - 1)
         IN [c \in DOMAIN d \cup {cs[n].card} |->
                IF c = cs[n].card THEN ch[n] ELSE d[c]]

\* Mutant of limit_reached: > for >=.
limit_reached_late(cnt) == limit # None /\ cnt > Val(limit)

\* Whether the limit stops the search: line 224.
limit_reached(cnt) == limit # None /\ cnt >= Val(limit)

\* Mutant of max_allowed: the largest count is left out of the range.
max_allowed_short(choice, remaining, min_next) ==
    Min(choice.max_count, remaining - min_next) - 1

\* max_allowed = min(choice.max_count, remaining - min_next)
max_allowed(choice, remaining, min_next) ==
    Min(choice.max_count, remaining - min_next)

\* Mutant of final_total: the limit is reported whether reached or not.
final_total_limit(cnt) == target

\* total = target if target and counter >= target else counter (line 266)
final_total(cnt) == IF target # 0 /\ cnt >= target THEN target ELSE cnt

top == stack[Len(stack)]

Frame(slot, remaining, lands, creatures) ==
    [slot |-> slot, remaining |-> remaining, lands |-> lands,
     creatures |-> creatures, entered |-> FALSE, counts |-> <<>>]

\* ------------------------------------------------------------- the actions
\* brute_force_decks up to the first call of backtrack (lines 149..196, 263).
Start ==
    /\ pc = "init"
    /\ \E r0 \in InitialRng(seed) :
          LET sh == Shuffle(choices, r0)
          IN /\ rng' = sh.rng
             /\ shuffled_choices' = sh.list
    /\ decks' = <<>>
    /\ counter' = 0
    /\ chosen' = <<>>
    /\ LET rep == report(TRUE, None, 0)
       IN /\ calls' = rep.calls
          /\ last_report' = now
    /\ stack' = <<Frame(0, deck_size, 0, 0)>>
    /\ pc' = "search"
    /\ UNCHANGED <<inputs, now, runs, prev_decks, deck_count>>
    /\ UNCHANGED simulator

\* A return of the innermost backtrack call; its caller pops chosen (line 261).
Return ==
    /\ stack' = SubSeq(stack, 1, Len(stack) - 1)
    /\ chosen' = IF Len(stack) > 1 THEN SubSeq(chosen, 1, Len(chosen) - 1) ELSE chosen
    /\ pc' = IF Len(stack) = 1 THEN "finish" ELSE pc

\* backtrack from its entry to the start of its loop (lines 223..248).
BacktrackEnter ==
    /\ pc = "search"
    /\ ~top.entered
    /\ IF limit_reached(counter)
          \/ top.remaining < min_suffix(shuffled_choices)[top.slot]
          \/ top.remaining > max_suffix(shuffled_choices)[top.slot]
          \/ rules_pruned(top.lands, top.creatures, top.slot)
       THEN Return /\ UNCHANGED <<rng, decks, counter, last_report, calls>>
       ELSE IF top.slot = total_cards
       THEN /\ Return
            /\ rng' = rng
            /\ IF top.remaining = 0
                  /\ (rules = None \/ validate(Val(rules), top.lands, top.creatures))
               THEN LET rep == report(FALSE, None, counter + 1)
                    IN /\ decks' = Append(decks,
                                      BuildDeck(shuffled_choices, chosen, Len(chosen)))
                       /\ counter' = counter + 1
                       /\ calls' = rep.calls
                       /\ last_report' = rep.last_report
               ELSE UNCHANGED <<decks, counter, last_report, calls>>
       ELSE LET choice == shuffled_choices[top.slot + 1]
                min_next == min_suffix(shuffled_choices)[top.slot + 1]
                sh == Shuffle(Range(choice.min_count,
                                    max_allowed(choice, top.remaining, min_next)), rng)
            IN /\ rng' = sh.rng
               /\ stack' = [stack EXCEPT ![Len(stack)] =
                               [@ EXCEPT !.entered = TRUE, !.counts = sh.list]]
               /\ UNCHANGED <<chosen, decks, counter, last_report, calls, pc>>
    /\ UNCHANGED <<inputs, shuffled_choices, now, runs, prev_decks, deck_count>>
    /\ UNCHANGED simulator

\* One iteration of backtrack's loop, or its end (lines 249..261).
BacktrackLoop ==
    /\ pc = "search"
    /\ top.entered
    /\ IF top.counts = <<>>
       THEN Return
       ELSE LET count == Head(top.counts)
                choice == shuffled_choices[top.slot + 1]
                next_remaining == top.remaining - count
                max_next == max_suffix(shuffled_choices)[top.slot + 1]
                rest == [stack EXCEPT ![Len(stack)] = [@ EXCEPT !.counts = Tail(@)]]
            IN /\ pc' = pc
               /\ IF next_remaining > max_next
                  THEN stack' = rest /\ chosen' = chosen
                  ELSE /\ chosen' = Append(chosen, count)
                       /\ stack' = Append(rest,
                            Frame(top.slot + 1, next_remaining,
                                  top.lands + (IF is_land(choice.card) THEN count ELSE 0),
                                  top.creatures
                                    + (IF is_creature(choice.card) THEN count ELSE 0)))
    /\ UNCHANGED <<inputs, rng, shuffled_choices, decks, counter, last_report, now,
                   calls, runs, prev_decks, deck_count>>
    /\ UNCHANGED simulator

\* The final report and the return of brute_force_decks (lines 265..269).
Finish ==
    /\ pc = "finish"
    /\ LET rep == report(TRUE, Some(final_total(counter)), counter)
       IN /\ calls' = rep.calls
          /\ last_report' = rep.last_report
    /\ pc' = "done"
    /\ runs' = runs + 1
    /\ UNCHANGED <<inputs, search, now, prev_decks, deck_count>>
    /\ UNCHANGED simulator

\* time.monotonic() advances while an invocation is in progress.
Tick ==
    /\ pc # "done"
    /\ now < MaxTime
    /\ now' = now + 1
    /\ UNCHANGED <<inputs, pc, search, last_report, calls, runs, prev_decks, deck_count>>
    /\ UNCHANGED simulator

\* A second invocation with the same arguments: the locals of the first are
\* gone, its result is kept for comparison.
Rerun ==
    /\ pc = "done"
    /\ runs = 1
    /\ prev_decks' = Some(decks)
    /\ pc' = "init"
    /\ rng' = 0
    /\ shuffled_choices' = <<>>
    /\ stack' = <<>>
    /\ chosen' = <<>>
    /\ decks' = <<>>
    /\ counter' = 0
    /\ last_report' = 0
    /\ calls' = <<>>
    /\ UNCHANGED <<inputs, now, runs, deck_count>>
    /\ UNCHANGED simulator

\* ------------------------------------------------- count_possible_decks
DeckCount(total, estimated, lower_bound, upper_bound) ==
    [total |-> total, estimated |-> estimated,
     lower_bound |-> lower_bound, upper_bound |-> upper_bound]

\* Python's "x or d" for an Optional[int] x: d when x is None or 0.
OrDefault(x, d) == IF x # None /\ Val(x) # 0 THEN Val(x) ELSE d

\* Mutant of CappedAdd: no cap.
UncappedAdd(a, b, estimate_cutoff) == a + b

\* next_ways[total] += ways[current_cards], capped at estimate_cutoff.
CappedAdd(a, b, estimate_cutoff) ==
    IF a + b > estimate_cutoff THEN estimate_cutoff ELSE a + b

\* for take in range(choice.min_count, choice.max_count + 1): ... (lines 71..77)
RECURSIVE TakeLoop(_, _, _, _, _, _, _)
TakeLoop(next_ways, ways, current_cards, take, choice, size, estimate_cutoff) ==
    IF take > choice.max_count THEN next_ways
    ELSE LET total == current_cards + take
         IN IF total > size THEN next_ways
            ELSE TakeLoop(
                   [next_ways EXCEPT ![total] =
                       CappedAdd(@, ways[current_cards], estimate_cutoff)],
                   ways, current_cards, take + 1, choice, size, estimate_cutoff)

\* for current_cards in range(deck_size + 1): ... (lines 68..77)
RECURSIVE CardsLoop(_, _, _, _, _, _)
CardsLoop(next_ways, ways, current_cards, choice, size, estimate_cutoff) ==
    IF current_cards > size THEN next_ways
    ELSE IF ways[current_cards] = 0
    THEN CardsLoop(next_ways, ways, current_cards + 1, choice, size, estimate_cutoff)
    ELSE CardsLoop(
           TakeLoop(next_ways, ways, current_cards, choice.min_count, choice, size,
                    estimate_cutoff),
           ways, current_cards + 1, choice, size, estimate_cutoff)

\* for choice in choices: ... ways = next_ways (lines 66..78)
RECURSIVE ChoicesLoop(_, _, _, _, _)
ChoicesLoop(ways, cs, k, size, estimate_cutoff) ==
    IF k > Len(cs) THEN ways
    ELSE ChoicesLoop(
           CardsLoop([i \in 0..size |-> 0], ways, 0, cs[k], size, estimate_cutoff),
           cs, k + 1, size, estimate_cutoff)

\* Whether the unconstrained count is reported as an estimate (line 80).
is_estimate(total, estimate_cutoff) == total >= estimate_cutoff

\* The rules-is-None branch (lines 62..88).
count_unconstrained(cs, size, estimate_cutoff) ==
    LET ways == ChoicesLoop([i \in 0..size |-> IF i = 0 THEN 1 ELSE 0],
                            cs, 1, size, estimate_cutoff)
        total == ways[size]
        estimated == is_estimate(total, estimate_cutoff)
    IN DeckCount(total, estimated,
                 IF estimated THEN estimate_cutoff ELSE total,
                 IF estimated THEN total + estimate_cutoff ELSE total)

\* Mutant of helper_leaf: the rules are not validated at the leaf.
helper_leaf_unvalidated(rls, remaining, lands, creatures) ==
    IF remaining = 0 THEN 1 ELSE 0

\* What a leaf of helper returns (lines 103..106).
helper_leaf(rls, remaining, lands, creatures) ==
    IF remaining = 0 /\ validate(rls, lands, creatures) THEN 1 ELSE 0

\* helper(slot, remaining, lands, creatures) (lines 96..125): its result and
\* whether it set the nonlocal flag estimated.  The lru_cache returns what the
\* first evaluation returned, and the flag, once set, stays set.
\* e is the enclosing scope: choices, rules, estimate_cutoff, max_lands,
\* max_creatures.
RECURSIVE helper(_, _, _, _, _)
RECURSIVE helper_loop(_, _, _, _, _, _, _, _)
helper(e, slot, remaining, lands, creatures) ==
    IF remaining < 0 THEN [total |-> 0, estimated |-> FALSE]
    ELSE IF lands > e.max_lands \/ creatures > e.max_creatures
    THEN [total |-> 0, estimated |-> FALSE]
    ELSE IF slot = Len(e.choices)
    THEN [total |-> helper_leaf(e.rules, remaining, lands, creatures),
          estimated |-> FALSE]
    ELSE helper_loop(e, slot, remaining, lands, creatures,
                     e.choices[slot + 1].min_count, 0, FALSE)

helper_loop(e, slot, remaining, lands, creatures, take, total, estimated) ==
    LET choice == e.choices[slot + 1]
        next_remaining == remaining - take
    IN IF take > choice.max_count \/ next_remaining < 0
       THEN [total |-> total, estimated |-> estimated]
       ELSE LET next_lands == lands + (IF is_land(choice.card) THEN take ELSE 0)
                next_creatures ==
                    creatures + (IF is_creature(choice.card) THEN take ELSE 0)
                result == helper(e, slot + 1, next_remaining, next_lands, next_creatures)
                sum == total + result.total
            IN IF sum > e.estimate_cutoff
               THEN [total |-> e.estimate_cutoff, estimated |-> TRUE]
               ELSE helper_loop(e, slot, remaining, lands, creatures, take + 1, sum,
                                estimated \/ result.estimated)

\* The branch with rules (lines 90..135).
count_constrained(cs, size, rls, estimate_cutoff) ==
    LET e == [choices |-> cs, rules |-> rls, estimate_cutoff |-> estimate_cutoff,
              max_lands |-> OrDefault(rls.max_lands, size),
              max_creatures |-> OrDefault(rls.max_creatures, size)]
        res == helper(e, 0, size, 0, 0)
    IN DeckCount(res.total, res.estimated,
                 IF res.estimated THEN estimate_cutoff ELSE res.total,
                 IF res.estimated THEN res.total + estimate_cutoff ELSE res.total)

count_possible_decks(cs, size, rls, estimate_cutoff) ==
    IF rls = None THEN count_unconstrained(cs, size, estimate_cutoff)
    ELSE count_constrained(cs, size, Val(rls), estimate_cutoff)

\* count_possible_decks(choices, deck_size, rules, estimate_cutoff) is called.
CountDecks(estimate_cutoff) ==
    /\ pc = "done"
    /\ deck_count = None
    /\ deck_count' = Some([cutoff |-> estimate_cutoff,
                           result |-> count_possible_decks(choices, deck_size, rules,
                                                           estimate_cutoff)])
    /\ UNCHANGED <<inputs, pc, search, last_report, now, calls, runs, prev_decks>>
    /\ UNCHANGED simulator

\* --------------------------------------------------------- specifications

\* No game is being simulated.
IdleGame ==
    /\ deck = <<>>
    /\ turns = 0
    /\ capture_trace = FALSE
    /\ self_rng = 0
    /\ rng0 = 0
    /\ step = "idle"
    /\ library = <<>>
    /\ hand = <<>>
    /\ battlefield = <<>>
    /\ game_result = <<>>
    /\ turn = 0
    /\ this_turn = <<>>
    /\ cast_plan = <<>>
    /\ casted_indices = <<>>
    /\ trace_turns = <<>>
    /\ first_run = None

\* No ranking is asked for.
IdleRank ==
    /\ candidates = <<>>
    /\ processed = 0
    /\ summaries = <<>>
    /\ ranked = None

InitSimulator ==
    /\ IdleGame
    /\ IdleRank
    /\ lands_in_play = <<>>
    /\ last_call = [op |-> "none"]

InitSearch ==
    /\ pc = "init"
    /\ rng = 0
    /\ shuffled_choices = <<>>
    /\ stack = <<>>
    /\ chosen = <<>>
    /\ decks = <<>>
    /\ counter = 0
    /\ last_report = 0
    /\ now = 0
    /\ calls = <<>>
    /\ runs = 0
    /\ prev_decks = None
    /\ deck_count = None

\* Search and count, without an observer.
Init ==
    /\ choices \in ChoiceSeqs
    /\ deck_size \in 1..MaxDeck
    /\ rules \in {None} \cup {Some(r) : r \in RulesSet}
    /\ limit \in Limits
    /\ seed \in Seeds \ {None}
    /\ observer = FALSE
    /\ InitSearch
    /\ InitSimulator

Next ==
    \/ Start
    \/ BacktrackEnter
    \/ BacktrackLoop
    \/ Finish
    \/ \E c \in 1..MaxCutoff : CountDecks(c)

Spec == Init /\ [][Next]_vars

\* With an observer and a running clock.
InitProgress ==
    /\ choices \in ChoiceSeqs
    /\ deck_size \in 1..MaxDeck
    /\ rules = None
    /\ limit \in Limits
    /\ seed \in Seeds \ {None}
    /\ observer = TRUE
    /\ InitSearch
    /\ InitSimulator

NextProgress ==
    \/ Start
    \/ BacktrackEnter
    \/ BacktrackLoop
    \/ Finish
    \/ Tick

SpecProgress == InitProgress /\ [][NextProgress]_vars

\* Two invocations in a row, seeded or not.
InitSeed ==
    /\ choices \in ChoiceSeqs
    /\ deck_size \in 1..MaxDeck
    /\ rules = None
    /\ limit \in Limits
    /\ seed \in Seeds
    /\ observer = FALSE
    /\ InitSearch
    /\ InitSimulator

NextSeed ==
    \/ Start
    \/ BacktrackEnter
    \/ BacktrackLoop
    \/ Finish
    \/ Rerun

SpecSeed == InitSeed /\ [][NextSeed]_vars

\* ------------------------------------------------- mana-payment planner
\* A LandPermanent is [card, tapped]; lands[i + 1] is the source's lands[i],
\* and a plan entry [idx, color] carries the source's 0-based index idx.
LandPermanent(card, tapped) == [card |-> card, tapped |-> tapped]

\* _cost_requirements (lines 515..525): one singleton set per colored symbol,
\* and the generic cost, which is the converted mana cost of a card that has
\* neither symbols nor a generic cost.
_cost_requirements(card) ==
    LET requirements == [k \in DOMAIN mana_cost_symbols(card) |->
                            {mana_cost_symbols(card)[k]}]
    IN [requirements |-> requirements,
        generic |-> IF requirements = <<>> /\ generic_cost(card) = 0
                       /\ mana_cost(card) # 0
                    THEN mana_cost(card)
                    ELSE generic_cost(card)]

_produced_colors(land) ==
    IF produced_mana(land.card) # <<>> THEN produced_mana(land.card) ELSE <<"C">>

RECURSIVE untapped_from(_, _)
untapped_from(lands, i) ==
    IF i >= Len(lands) THEN <<>>
    ELSE (IF lands[i + 1].tapped THEN <<>> ELSE <<i>>) \o untapped_from(lands, i + 1)

untapped_indices(lands) == untapped_from(lands, 0)

is_used(idx, used) == \E k \in DOMAIN used : used[k].idx = idx

\* backtrack (lines 535..548): the loop over the untapped lands is
\* backtrack_lands, the loop over one land's colors is backtrack_colors.
RECURSIVE backtrack(_, _, _), backtrack_lands(_, _, _, _), backtrack_colors(_, _, _, _, _)
backtrack(lands, reqs, used) ==
    IF reqs = <<>> THEN Some(used)
    ELSE backtrack_lands(lands, reqs, used, untapped_indices(lands))

\* A planner that keeps the first land that fits and never revises it.
backtrack_lands_committed(lands, reqs, used, indices) ==
    IF indices = <<>> THEN None
    ELSE IF is_used(Head(indices), used)
            \/ \A k \in DOMAIN _produced_colors(lands[Head(indices) + 1]) :
                    _produced_colors(lands[Head(indices) + 1])[k] \notin Head(reqs)
         THEN backtrack_lands(lands, reqs, used, Tail(indices))
         ELSE backtrack_colors(lands, reqs, used, Head(indices),
                               _produced_colors(lands[Head(indices) + 1]))

backtrack_lands(lands, reqs, used, indices) ==
    IF indices = <<>> THEN None
    ELSE IF is_used(Head(indices), used)
         THEN backtrack_lands(lands, reqs, used, Tail(indices))
         ELSE LET res == backtrack_colors(lands, reqs, used, Head(indices),
                                          _produced_colors(lands[Head(indices) + 1]))
              IN IF res # None THEN res
                 ELSE backtrack_lands(lands, reqs, used, Tail(indices))

backtrack_colors(lands, reqs, used, idx, colors) ==
    IF colors = <<>> THEN None
    ELSE IF Head(colors) \in Head(reqs)
         THEN LET res == backtrack(lands, Tail(reqs),
                             Append(used, [idx |-> idx, color |-> Head(colors)]))
              IN IF res # None THEN res
                 ELSE backtrack_colors(lands, reqs, used, idx, Tail(colors))
         ELSE backtrack_colors(lands, reqs, used, idx, Tail(colors))

\* The generic part of the plan (lines 554..566); the result is the plan and
\* what is left of the generic cost.
RECURSIVE generic_loop(_, _, _, _, _)
\* A loop that does not stop when the generic cost is paid.
generic_loop_unbounded(lands, used, indices, remaining_generic, generic_plan) ==
    IF indices = <<>>
    THEN [plan |-> generic_plan, remaining_generic |-> remaining_generic]
    ELSE IF is_used(Head(indices), used)
         THEN generic_loop(lands, used, Tail(indices), remaining_generic, generic_plan)
         ELSE generic_loop(lands, used, Tail(indices),
                  IF remaining_generic > 0 THEN remaining_generic - 1 ELSE 0,
                  Append(generic_plan,
                         [idx |-> Head(indices),
                          color |-> _produced_colors(lands[Head(indices) + 1])[1]]))

generic_loop(lands, used, indices, remaining_generic, generic_plan) ==
    IF indices = <<>>
    THEN [plan |-> generic_plan, remaining_generic |-> remaining_generic]
    ELSE IF is_used(Head(indices), used)
         THEN generic_loop(lands, used, Tail(indices), remaining_generic, generic_plan)
         ELSE IF remaining_generic <= 0
              THEN [plan |-> generic_plan, remaining_generic |-> remaining_generic]
              ELSE generic_loop(lands, used, Tail(indices), remaining_generic - 1,
                       Append(generic_plan,
                              [idx |-> Head(indices),
                               color |-> _produced_colors(lands[Head(indices) + 1])[1]]))

\* _plan_payment (lines 532..571): None, or Some(plan).
_plan_payment(requirements, generic, lands) ==
    LET colored_plan == backtrack(lands, requirements, <<>>)
    IN IF colored_plan = None THEN None
       ELSE LET g == generic_loop(lands, Val(colored_plan), untapped_indices(lands),
                                  generic, <<>>)
            IN IF g.remaining_generic > 0 THEN None
               ELSE Some(Val(colored_plan) \o g.plan)

\* _can_pay_for_spell (lines 574..577).
_can_pay_for_spell(card, lands) ==
    LET c == _cost_requirements(card)
    IN _plan_payment(c.requirements, c.generic, lands) # None

\* The loop of _pay_for_spell (lines 586..595): every land of the plan is
\* tapped, and reported, once.
RECURSIVE tap_loop(_, _, _, _)
tap_loop(plan, lands, tapped, actions) ==
    IF plan = <<>> THEN [lands |-> lands, actions |-> actions]
    ELSE LET idx == Head(plan).idx
             color == Head(plan).color
         IN IF idx \in tapped
            THEN tap_loop(Tail(plan), lands, tapped, actions)
            ELSE tap_loop(Tail(plan),
                          [lands EXCEPT ![idx + 1].tapped = TRUE],
                          tapped \cup {idx},
                          Append(actions,
                                 [land |-> lands[idx + 1].card,
                                  color_label |-> IF color # "C" THEN color
                                                  ELSE "colorless"]))

\* A payment that taps every land although no plan was found.
_pay_for_spell_tapping(card, lands) ==
    LET c == _cost_requirements(card)
        plan == _plan_payment(c.requirements, c.generic, lands)
    IN IF plan = None
       THEN [payment |-> None,
             lands |-> [i \in DOMAIN lands |-> [lands[i] EXCEPT !.tapped = TRUE]]]
       ELSE LET t == tap_loop(Val(plan), lands, {}, <<>>)
            IN [payment |-> Some(t.actions), lands |-> t.lands]

\* _pay_for_spell (lines 580..596): the returned actions, or None, and the
\* lands as the call leaves them.
_pay_for_spell(card, lands) ==
    LET c == _cost_requirements(card)
        plan == _plan_payment(c.requirements, c.generic, lands)
    IN IF plan = None
       THEN [payment |-> None, lands |-> lands]
       ELSE LET t == tap_loop(Val(plan), lands, {}, <<>>)
            IN [payment |-> Some(t.actions), lands |-> t.lands]

\* The planner called on its own, on any lands (test_simulator_rules.py).
CanPayForSpell(card) ==
    /\ last_call' = [op |-> "can_pay", card |-> card, before |-> lands_in_play,
                     result |-> _can_pay_for_spell(card, lands_in_play)]
    /\ UNCHANGED lands_in_play
    /\ UNCHANGED <<searcher, played, ranking>>

PayForSpell(card) ==
    /\ last_call' = [op |-> "pay", card |-> card, before |-> lands_in_play,
                     result |-> _pay_for_spell(card, lands_in_play).payment]
    /\ lands_in_play' = _pay_for_spell(card, lands_in_play).lands
    /\ UNCHANGED <<searcher, played, ranking>>

\* The untap step (lines 145..146).
Untap ==
    /\ \E i \in DOMAIN lands_in_play : lands_in_play[i].tapped
    /\ lands_in_play' = [i \in DOMAIN lands_in_play |->
                            [lands_in_play[i] EXCEPT !.tapped = FALSE]]
    /\ last_call' = [op |-> "none"]
    /\ UNCHANGED <<searcher, played, ranking>>

LandSeqs ==
    UNION {[1..n -> {LandPermanent(c, t) : c \in Lands, t \in BOOLEAN}] :
              n \in 0..MaxLands}

\* No search is running.
IdleSearch ==
    /\ choices = <<>>
    /\ deck_size = 1
    /\ rules = None
    /\ limit = None
    /\ seed = None
    /\ observer = FALSE
    /\ InitSearch

InitPay ==
    /\ lands_in_play \in LandSeqs
    /\ last_call = [op |-> "none"]
    /\ IdleGame
    /\ IdleRank
    /\ IdleSearch

NextPay ==
    \/ \E card \in Spells : CanPayForSpell(card)
    \/ \E card \in Spells : PayForSpell(card)
    \/ Untap

SpecPay == InitPay /\ [][NextPay]_vars

\* ---------------------------------------------------------- game simulator
\* Card.power, Card.toughness (None when not given) and Card.impact_score,
\* which is a whole number for the cards here.
power(card) ==
    CASE card = "Elf"   -> Some(1)
      [] card = "Golem" -> Some(2)
      [] OTHER -> None

toughness(card) ==
    CASE card = "Elf"   -> Some(1)
      [] card = "Golem" -> Some(0)
      [] OTHER -> None

impact_score(card) ==
    CASE card = "Growth" -> 1
      [] card = "Golem"  -> 1
      [] OTHER -> 0

\* The cards decks are built from, and the decks: a dict of distinct cards
\* with positive counts, here with its items in the order of GamePool.
GamePool == <<"Forest", "Grove", "Elf", "Golem", "Bolt", "Growth", "Procession">>

RECURSIVE deck_total(_)
deck_total(d) == IF d = <<>> THEN 0 ELSE Head(d).count + deck_total(Tail(d))

GameRngs == {SeedRng(s) : s \in 0..MaxSeed}

Decks ==
    {[k \in DOMAIN d |-> [card |-> GamePool[d[k].at], count |-> d[k].count]] :
        d \in {e \in UNION {[1..n -> [at : DOMAIN GamePool, count : 1..MaxCopies]] :
                               n \in 1..MaxKinds} :
                  /\ \A i, j \in DOMAIN e : i < j => e[i].at < e[j].at
                  /\ deck_total(e) \in MinCards..MaxCards}}

\* flatten_deck (card.py, lines 68..74).
RECURSIVE flatten_deck(_)
flatten_deck(d) ==
    IF d = <<>> THEN <<>>
    ELSE [k \in 1..Head(d).count |-> Head(d).card] \o flatten_deck(Tail(d))

\* _should_hold_until_creature (lines 93..105), without the rule.
_should_hold_never(card, permanents) == FALSE

\* _should_hold_until_creature (lines 93..105).
_should_hold_until_creature(card, permanents) ==
    IF is_land(card) \/ is_creature(card) THEN FALSE
    ELSE IF "counter" \in tags(card) \/ "card_draw" \in tags(card)
            \/ "removal" \in tags(card)
         THEN FALSE
         ELSE ~ \E k \in DOMAIN permanents : is_creature(permanents[k])

\* Python's comparison of tuples of integers of one length.
RECURSIVE tuple_less(_, _)
tuple_less(a, b) ==
    IF a = <<>> THEN FALSE
    ELSE IF Head(a) # Head(b) THEN Head(a) < Head(b)
         ELSE tuple_less(Tail(a), Tail(b))

\* sorted(..., key=..., reverse=True), on the sequence of the keys: the
\* 1-based positions in descending order of their keys, equal keys in their
\* original order.  insert_reverse puts position i behind every position
\* whose key is not smaller.
RECURSIVE insert_reverse(_, _, _)
\* An order that puts a position before the positions of equal key.
insert_reverse_before_equal(order, keys, i) ==
    IF order = <<>> THEN <<i>>
    ELSE IF ~tuple_less(keys[i], keys[Head(order)])
         THEN <<i>> \o order
         ELSE <<Head(order)>> \o insert_reverse(Tail(order), keys, i)

insert_reverse(order, keys, i) ==
    IF order = <<>> THEN <<i>>
    ELSE IF tuple_less(keys[Head(order)], keys[i])
         THEN <<i>> \o order
         ELSE <<Head(order)>> \o insert_reverse(Tail(order), keys, i)

RECURSIVE sorted_upto(_, _)
sorted_upto(keys, n) ==
    IF n = 0 THEN <<>> ELSE insert_reverse(sorted_upto(keys, n - 1), keys, n)

sorted_reverse(keys) == sorted_upto(keys, Len(keys))

\* Mutant of _land_priority: the colors a land produces are not looked at.
_land_priority_untapped_only(card) == <<IF ~enters_tapped(card) THEN 1 ELSE 0, 1>>

\* _land_priority (lines 508..512).
_land_priority(card) ==
    <<IF ~enters_tapped(card) THEN 1 ELSE 0,
      IF produced_mana(card) # <<>> THEN Len(produced_mana(card)) ELSE 1>>

\* Without every element equal to x.
remove_every(l, x) == SelectSeq(l, LAMBDA y : y # x)

\* list.remove: without the first element equal to x.
RECURSIVE remove(_, _)
remove(l, x) ==
    IF l = <<>> THEN <<>>
    ELSE IF Head(l) = x THEN Tail(l) ELSE <<Head(l)>> \o remove(Tail(l), x)

\* list.pop(idx), 0-based: the list that is left.
pop(l, idx) == SubSeq(l, 1, idx) \o SubSeq(l, idx + 2, Len(l))

\* The land drop loop (lines 156..166) on the hand: the lands of the hand in
\* the order of sorted(hand, key=_land_priority, reverse=True); the first one
\* is played.
lands_by_priority(h) ==
    LET order == sorted_reverse([k \in DOMAIN h |-> _land_priority(h[k])])
    IN SelectSeq([k \in DOMAIN order |-> h[order[k]]], is_land)

\* Mutant of cast_plan_of: the non-land cards in the order of the hand.
cast_plan_of_hand_order(h) ==
    SelectSeq([k \in DOMAIN h |-> k - 1], LAMBDA i : ~is_land(h[i + 1]))

\* cast_plan (lines 172..176): the 0-based indices of the non-land cards of
\* the hand, by descending (mana_cost, index).
cast_plan_of(h) ==
    LET indices == SelectSeq([k \in DOMAIN h |-> k - 1],
                             LAMBDA i : ~is_land(h[i + 1]))
        order == sorted_reverse([k \in DOMAIN indices |->
                                    <<mana_cost(h[indices[k] + 1]), indices[k]>>])
    IN [k \in DOMAIN order |-> indices[order[k]]]

\* for idx in sorted(casted_indices, reverse=True): hand.pop(idx)
\* (lines 233..234).
RECURSIVE pop_each(_, _)
pop_each(h, indices) ==
    IF indices = <<>> THEN h ELSE pop_each(pop(h, Head(indices)), Tail(indices))

\* Mutant of pop_casted: the indices are popped in the order they were cast.
pop_casted_in_cast_order(h, casted) == pop_each(h, casted)

pop_casted(h, casted) ==
    LET order == sorted_reverse([k \in DOMAIN casted |-> <<casted[k]>>])
    IN pop_each(h, [k \in DOMAIN order |-> casted[order[k]]])

\* board_impact (lines 236..242).
RECURSIVE board_impact_of(_)
board_impact_of(permanents) ==
    IF permanents = <<>> THEN 0
    ELSE (IF is_land(Head(permanents)) THEN 0
          ELSE OrDefault(power(Head(permanents)), 0)
               + OrDefault(toughness(Head(permanents)), 0)
               + (IF is_creature(Head(permanents))
                  THEN impact_score(Head(permanents)) ELSE 0))
         + board_impact_of(Tail(permanents))

\* Every non-land card of the hand, payable or not.
castable_spells_unpaid(h, lands) == SelectSeq(h, LAMBDA card : ~is_land(card))

\* castable_spells (lines 246..250).
castable_spells(h, lands) ==
    SelectSeq(h, LAMBDA card : ~is_land(card) /\ _can_pay_for_spell(card, lands))

\* The counters of a game (lines 120..129), which become the GameResult.
GameResult(spells_cast, mana_spent, total_board_impact, spell_impact, interaction_spells, counterspells, card_draw_spells, finishers, color_screw_turns, land_drops_missed) ==
    [spells_cast |-> spells_cast, mana_spent |-> mana_spent,
     total_board_impact |-> total_board_impact, spell_impact |-> spell_impact,
     interaction_spells |-> interaction_spells, counterspells |-> counterspells,
     card_draw_spells |-> card_draw_spells, finishers |-> finishers,
     color_screw_turns |-> color_screw_turns,
     land_drops_missed |-> land_drops_missed]

\* The locals of one turn (lines 135..142, 148, 155).
NewTurn ==
    [turn_actions |-> <<>>, spells_cast |-> 0, mana_spent |-> 0,
     spell_impact |-> 0, interaction |-> 0, counters |-> 0, card_draw |-> 0,
     finishers |-> 0, draw |-> None, land_played |-> FALSE]

Note(text, card, detail) == [text |-> text, card |-> card, detail |-> detail]

\* A trace entry that reports the mana spent as the spells cast.
TurnTraceOfMana(t, locals, board_impact, color_screw) ==
    [turn |-> t, draw |-> locals.draw, actions |-> locals.turn_actions,
     spells_cast |-> locals.mana_spent, mana_spent |-> locals.mana_spent,
     board_impact |-> board_impact, spell_impact |-> locals.spell_impact,
     interaction_spells |-> locals.interaction,
     counterspells |-> locals.counters, card_draw_spells |-> locals.card_draw,
     finishers |-> locals.finishers, color_screw |-> color_screw,
     land_missed |-> ~locals.land_played]

\* TurnTrace (lines 266..280).
TurnTrace(t, locals, board_impact, color_screw) ==
    [turn |-> t, draw |-> locals.draw, actions |-> locals.turn_actions,
     spells_cast |-> locals.spells_cast, mana_spent |-> locals.mana_spent,
     board_impact |-> board_impact, spell_impact |-> locals.spell_impact,
     interaction_spells |-> locals.interaction,
     counterspells |-> locals.counters, card_draw_spells |-> locals.card_draw,
     finishers |-> locals.finishers, color_screw |-> color_screw,
     land_missed |-> ~locals.land_played]

\* An untap step that leaves the lands as they are.
untap_none(lands) == lands

\* The untap step (lines 145..146).
untap(lands) == [i \in DOMAIN lands |-> [lands[i] EXCEPT !.tapped = FALSE]]

game == <<deck, turns, self_rng, rng0>>

\* Mutant of loop_step: the turn loop also ends when the library is empty.
loop_step_while_library(t) == IF t < turns /\ library # <<>> THEN "turn" ELSE "done"

\* for _turn in range(1, turns + 1) (line 134): where _simulate goes after
\* turn t, t = 0 standing for the setup.
loop_step(t) == IF t < turns THEN "turn" ELSE "done"

\* _simulate up to the opening hand (lines 114..132).  Popping from the
\* emptied library raises IndexError.
StartGame ==
    /\ step = "start"
    /\ LET s == Shuffle(flatten_deck(deck), self_rng)
           n == Len(s.list)
       IN /\ self_rng' = s.rng
          /\ IF n < OpeningHand
             THEN /\ step' = "IndexError"
                  /\ library' = <<>>
                  /\ hand' = <<>>
             ELSE /\ step' = loop_step(0)
                  /\ library' = SubSeq(s.list, 1, n - OpeningHand)
                  /\ hand' = [k \in 1..OpeningHand |-> s.list[n + 1 - k]]
    /\ battlefield' = <<>>
    /\ lands_in_play' = <<>>
    /\ game_result' = GameResult(0, 0, 0, 0, 0, 0, 0, 0, 0, 0)
    /\ trace_turns' = <<>>
    /\ turn' = 0
    /\ this_turn' = NewTurn
    /\ cast_plan' = <<>>
    /\ casted_indices' = <<>>
    /\ last_call' = [op |-> "none"]
    /\ UNCHANGED <<deck, turns, rng0, capture_trace, first_run>>
    /\ UNCHANGED <<searcher, ranking>>

\* The start of a turn: untap and draw (lines 134..153).
BeginTurn ==
    /\ step = "turn"
    /\ turn' = turn + 1
    /\ lands_in_play' = untap(lands_in_play)
    /\ IF library # <<>>
       THEN LET draw == library[Len(library)]
            IN /\ library' = SubSeq(library, 1, Len(library) - 1)
               /\ hand' = Append(hand, draw)
               /\ this_turn' =
                    [NewTurn EXCEPT
                       !.draw = Some(draw),
                       !.turn_actions = IF capture_trace
                                        THEN <<Note("Drew", draw, "")>>
                                        ELSE <<>>]
       ELSE /\ this_turn' = NewTurn
            /\ UNCHANGED <<library, hand>>
    /\ step' = "land"
    /\ last_call' = [op |-> "none"]
    /\ UNCHANGED <<game, capture_trace, first_run, battlefield, game_result,
                   trace_turns, cast_plan, casted_indices>>
    /\ UNCHANGED <<searcher, ranking>>

\* The land drop and the cast plan (lines 155..176).
LandDrop ==
    /\ step = "land"
    /\ LET lands == lands_by_priority(hand)
       IN IF lands # <<>>
          THEN LET card == Head(lands)
               IN /\ hand' = remove(hand, card)
                  /\ lands_in_play' =
                       Append(lands_in_play, LandPermanent(card, enters_tapped(card)))
                  /\ this_turn' =
                       [this_turn EXCEPT
                          !.land_played = TRUE,
                          !.turn_actions =
                             IF capture_trace
                             THEN Append(@, Note("Played land", card,
                                                 IF enters_tapped(card)
                                                 THEN "tapped" ELSE "untapped"))
                             ELSE @]
                  /\ game_result' = game_result
          ELSE /\ game_result' = [game_result EXCEPT !.land_drops_missed = @ + 1]
               /\ UNCHANGED <<hand, lands_in_play, this_turn>>
    /\ cast_plan' = cast_plan_of(hand')
    /\ casted_indices' = <<>>
    /\ step' = "cast"
    /\ last_call' = [op |-> "none"]
    /\ UNCHANGED <<game, capture_trace, first_run, library, battlefield,
                   trace_turns, turn>>
    /\ UNCHANGED <<searcher, ranking>>

\* The details of a cast (lines 199..225), as the set of their kinds.
cast_details(card) ==
    (IF impact_score(card) # 0
     THEN {IF is_creature(card) THEN "creature impact" ELSE "spell impact"}
     ELSE {})
    \cup (tags(card) \cap {"removal", "counter", "card_draw", "finisher"})

\* One iteration of the cast loop (lines 178..231).
CastNext ==
    /\ step = "cast"
    /\ cast_plan # <<>>
    /\ LET idx == Head(cast_plan)
           card == hand[idx + 1]
           p == _pay_for_spell(card, lands_in_play)
       IN /\ cast_plan' = Tail(cast_plan)
          /\ IF _should_hold_until_creature(card, battlefield)
             THEN /\ this_turn' =
                       [this_turn EXCEPT
                          !.turn_actions = IF capture_trace
                                           THEN Append(@, Note("Held", card, ""))
                                           ELSE @]
                  /\ last_call' = [op |-> "none"]
                  /\ UNCHANGED <<lands_in_play, game_result, casted_indices, battlefield>>
             ELSE /\ last_call' = [op |-> "pay", card |-> card,
                                   before |-> lands_in_play,
                                   result |-> p.payment]
                  /\ lands_in_play' = p.lands
                  /\ IF p.payment = None
                     THEN UNCHANGED <<this_turn, game_result, casted_indices, battlefield>>
                     ELSE /\ casted_indices' = Append(casted_indices, idx)
                          /\ battlefield' = Append(battlefield, card)
                          /\ game_result' =
                               [game_result EXCEPT
                                  !.spells_cast = @ + 1,
                                  !.mana_spent = @ + mana_cost(card),
                                  !.spell_impact =
                                     IF impact_score(card) # 0 /\ ~is_creature(card)
                                     THEN @ + impact_score(card) ELSE @,
                                  !.interaction_spells =
                                     IF "removal" \in tags(card) THEN @ + 1 ELSE @,
                                  !.counterspells =
                                     IF "counter" \in tags(card) THEN @ + 1 ELSE @,
                                  !.card_draw_spells =
                                     IF "card_draw" \in tags(card) THEN @ + 1 ELSE @,
                                  !.finishers =
                                     IF "finisher" \in tags(card) THEN @ + 1 ELSE @]
                          /\ this_turn' =
                               [this_turn EXCEPT
                                  !.spells_cast = @ + 1,
                                  !.mana_spent = @ + mana_cost(card),
                                  !.spell_impact =
                                     IF impact_score(card) # 0 /\ ~is_creature(card)
                                     THEN @ + impact_score(card) ELSE @,
                                  !.interaction =
                                     IF "removal" \in tags(card) THEN @ + 1 ELSE @,
                                  !.counters =
                                     IF "counter" \in tags(card) THEN @ + 1 ELSE @,
                                  !.card_draw =
                                     IF "card_draw" \in tags(card) THEN @ + 1 ELSE @,
                                  !.finishers =
                                     IF "finisher" \in tags(card) THEN @ + 1 ELSE @,
                                  !.turn_actions =
                                     IF capture_trace
                                     THEN Append(@ \o [k \in DOMAIN Val(p.payment) |->
                                                         Note("Tapped",
                                                              Val(p.payment)[k].land,
                                                              Val(p.payment)[k].color_label)],
                                                 [text |-> "Cast", card |-> card,
                                                  detail |-> cast_details(card)])
                                     ELSE @]
    /\ UNCHANGED <<game, capture_trace, first_run, library, hand, trace_turns,
                   turn, step>>
    /\ UNCHANGED <<searcher, ranking>>

\* The end of a turn (lines 233..281) and, after the last turn, the return
\* of the result (lines 283..298).
EndTurn ==
    /\ step = "cast"
    /\ cast_plan = <<>>
    /\ LET left == pop_casted(hand, casted_indices)
           board_impact == board_impact_of(battlefield)
           castable == castable_spells(left, lands_in_play)
           color_screw_this_turn ==
              \/ castable # <<>> /\ this_turn.spells_cast = 0
              \/ castable = <<>>
                 /\ \E i \in DOMAIN lands_in_play : ~lands_in_play[i].tapped
           locals == [this_turn EXCEPT
                        !.turn_actions =
                           IF capture_trace
                           THEN @ \o <<Note("Board impact", "", "")>>
                                  \o (IF color_screw_this_turn
                                      THEN <<Note("Could not use available colors effectively",
                                                  "", "")>>
                                      ELSE <<>>)
                           ELSE @]
       IN /\ hand' = left
          /\ game_result' =
               [game_result EXCEPT
                  !.total_board_impact = @ + board_impact,
                  !.color_screw_turns = IF color_screw_this_turn THEN @ + 1 ELSE @]
          /\ this_turn' = locals
          /\ trace_turns' =
               IF capture_trace
               THEN Append(trace_turns,
                           TurnTrace(turn, locals, board_impact,
                                     color_screw_this_turn))
               ELSE trace_turns
    /\ step' = loop_step(turn)
    /\ last_call' = [op |-> "none"]
    /\ UNCHANGED <<game, capture_trace, first_run, library, battlefield,
                   lands_in_play, cast_plan, casted_indices, turn>>
    /\ UNCHANGED <<searcher, ranking>>

\* simulate_with_trace (lines 304..307) after simulate (lines 300..302), on
\* the same deck and from the same state of the generator.
Replay ==
    /\ step = "done"
    /\ first_run = None
    /\ first_run' = Some([result |-> game_result, rng |-> self_rng])
    /\ capture_trace' = TRUE
    /\ self_rng' = rng0
    /\ step' = "start"
    /\ UNCHANGED <<deck, turns, rng0, library, hand, battlefield, lands_in_play,
                   game_result, trace_turns, turn, this_turn, cast_plan,
                   casted_indices, last_call>>
    /\ UNCHANGED <<searcher, ranking>>

InitGame ==
    /\ deck \in Decks
    /\ turns \in 1..MaxTurns
    /\ self_rng \in GameRngs
    /\ rng0 = self_rng
    /\ capture_trace = FALSE
    /\ first_run = None
    /\ step = "start"
    /\ library = <<>>
    /\ hand = <<>>
    /\ battlefield = <<>>
    /\ lands_in_play = <<>>
    /\ game_result = GameResult(0, 0, 0, 0, 0, 0, 0, 0, 0, 0)
    /\ trace_turns = <<>>
    /\ turn = 0
    /\ this_turn = NewTurn
    /\ cast_plan = <<>>
    /\ casted_indices = <<>>
    /\ last_call = [op |-> "none"]
    /\ IdleRank
    /\ IdleSearch

NextGame ==
    \/ StartGame
    \/ BeginTurn
    \/ LandDrop
    \/ CastNext
    \/ EndTurn
    \/ Replay

SpecGame == InitGame /\ [][NextGame]_vars

\* ------------------------------------------------------------ land drops
\* The first turn of a game with a deck of OpeningHand cards, after the
\* untap and the draw that found the library empty: every hand of
\* OpeningHand cards of HandPool is the opening hand of some such game.
HandPool == <<"Forest", "Taiga", "Grove", "Wastes", "Bolt">>

Hands == [1..OpeningHand -> {HandPool[k] : k \in DOMAIN HandPool}]

\* The deck a hand was dealt from, as its items in HandPool order.
deck_of_hand(h) ==
    LET count(c) == Cardinality({k \in DOMAIN h : h[k] = c})
        kinds == SelectSeq(HandPool, LAMBDA c : count(c) > 0)
    IN [k \in DOMAIN kinds |-> [card |-> kinds[k], count |-> count(kinds[k])]]

InitLand ==
    /\ hand \in Hands
    /\ deck = deck_of_hand(hand)
    /\ turns = 1
    /\ self_rng = SeedRng(0)
    /\ rng0 = self_rng
    /\ capture_trace = FALSE
    /\ first_run = None
    /\ step = "land"
    /\ library = <<>>
    /\ battlefield = <<>>
    /\ lands_in_play = <<>>
    /\ game_result = GameResult(0, 0, 0, 0, 0, 0, 0, 0, 0, 0)
    /\ trace_turns = <<>>
    /\ turn = 1
    /\ this_turn = NewTurn
    /\ cast_plan = <<>>
    /\ casted_indices = <<>>
    /\ last_call = [op |-> "none"]
    /\ IdleRank
    /\ IdleSearch

NextLand == LandDrop

SpecLand == InitLand /\ [][NextLand]_vars

\* -------------------------------------------------------------- rank_decks
\* The sums of lines 284..285 over the items of a deck.
RECURSIVE lands_of(_)
lands_of(d) ==
    IF d = <<>> THEN 0
    ELSE (IF is_land(Head(d).card) THEN Head(d).count ELSE 0) + lands_of(Tail(d))

RECURSIVE creatures_of(_)
creatures_of(d) ==
    IF d = <<>> THEN 0
    ELSE (IF is_creature(Head(d).card) THEN Head(d).count ELSE 0)
         + creatures_of(Tail(d))

\* The summary simulate_deck returns; of its averages only average_score
\* matters to the ranking.  The score is a whole number here.
SimulationSummary(d, average_score) ==
    [deck |-> d, average_score |-> average_score]

\* Lines 281..288: the decks that pass config.deck_rules, in input order.
\* A candidate is a deck with the average score simulate_deck gives it.
filter_decks(deck_list, rls) ==
    IF rls # None
    THEN SelectSeq(deck_list,
                   LAMBDA c : validate(Val(rls), lands_of(c.deck),
                                       creatures_of(c.deck)))
    ELSE deck_list

\* Mutant of deck_list: the filtered list is dropped, every deck is kept.
deck_list_unfiltered == candidates

\* deck_list as the loop of line 296 sees it.
deck_list == filter_decks(candidates, rules)

\* Mutant of progress: the observer is told of no deck but the last.
progress_of_total(processed_, total) ==
    Append(calls, [completed |-> total, total |-> total, at |-> now])

\* progress(processed, total): the calls after it.
progress(processed_, total) ==
    Append(calls, [completed |-> processed_, total |-> total, at |-> now])

\* sorted(summaries, key=lambda s: s.average_score, reverse=True), line 306.
sorted_summaries(l) ==
    LET order == sorted_reverse([k \in DOMAIN l |-> <<l[k].average_score>>])
    IN [k \in DOMAIN order |-> l[order[k]]]

\* rank_decks up to its loop (lines 279..295).
RankStart ==
    /\ pc = "init"
    /\ processed' = 0
    /\ summaries' = <<>>
    /\ calls' = IF observer THEN progress(0, Len(deck_list)) ELSE calls
    /\ last_report' = now
    /\ pc' = "rank"
    /\ UNCHANGED <<inputs, search, now, runs, prev_decks, deck_count>>
    /\ UNCHANGED <<played, lands_in_play, last_call, candidates, ranked>>

\* One round of the loop (lines 296..304).
RankSimulate ==
    /\ pc = "rank"
    /\ processed < Len(deck_list)
    /\ LET d == deck_list[processed + 1]
           total == Len(deck_list)
           report_due == processed + 1 = total \/ now - last_report >= 1
       IN /\ summaries' = Append(summaries,
                                 SimulationSummary(d.deck, d.average_score))
          /\ processed' = processed + 1
          /\ calls' = IF observer /\ report_due
                      THEN progress(processed + 1, total) ELSE calls
          /\ last_report' = IF observer /\ report_due THEN now ELSE last_report
    /\ UNCHANGED <<inputs, pc, search, now, runs, prev_decks, deck_count>>
    /\ UNCHANGED <<played, lands_in_play, last_call, candidates, ranked>>

\* The return (line 306).
RankReturn ==
    /\ pc = "rank"
    /\ processed = Len(deck_list)
    /\ ranked' = Some(sorted_summaries(summaries))
    /\ pc' = "done"
    /\ UNCHANGED <<inputs, search, now, last_report, calls, runs, prev_decks,
                   deck_count>>
    /\ UNCHANGED <<played, lands_in_play, last_call, candidates, processed,
                   summaries>>

RankedDecks ==
    {<<[card |-> "Forest", count |-> 2]>>,
     <<[card |-> "Forest", count |-> 1], [card |-> "Elf", count |-> 1]>>,
     <<[card |-> "Elf", count |-> 2]>>}

Candidates ==
    UNION {[1..n -> [deck : RankedDecks, average_score : 0..MaxScore]] :
              n \in 0..MaxRanked}

LandRules ==
    {[min_lands |-> b, max_lands |-> None, min_creatures |-> None,
      max_creatures |-> None] : b \in RuleBounds}

\* Ranking without an observer, under any deck rules.
InitRank ==
    /\ candidates \in Candidates
    /\ ranked = None
    /\ processed = 0
    /\ summaries = <<>>
    /\ choices = <<>>
    /\ deck_size = 1
    /\ rules \in {None} \cup {Some(r) : r \in RulesSet}
    /\ limit = None
    /\ seed = None
    /\ observer = FALSE
    /\ InitSearch
    /\ IdleGame
    /\ lands_in_play = <<>>
    /\ last_call = [op |-> "none"]

NextRank ==
    \/ RankStart
    \/ RankSimulate
    \/ RankReturn

SpecRank == InitRank /\ [][NextRank]_vars

\* Ranking with an observer and a running clock.
InitRankProgress ==
    /\ candidates \in Candidates
    /\ ranked = None
    /\ processed = 0
    /\ summaries = <<>>
    /\ choices = <<>>
    /\ deck_size = 1
    /\ rules \in {None} \cup {Some(r) : r \in LandRules}
    /\ limit = None
    /\ seed = None
    /\ observer = TRUE
    /\ InitSearch
    /\ IdleGame
    /\ lands_in_play = <<>>
    /\ last_call = [op |-> "none"]

NextRankProgress ==
    \/ RankStart
    \/ RankSimulate
    \/ RankReturn
    \/ Tick

SpecRankProgress == InitRankProgress /\ [][NextRankProgress]_vars

\* ------------------------------------------------- DeckRules.validate calls
\* rules.validate(lands, creatures) on the configured rules, the call and
\* what it returned kept in last_call.
Validate(lands, creatures) ==
    /\ rules # None
    /\ last_call' = [op |-> "validate", lands |-> lands, creatures |-> creatures,
                     result |-> validate(Val(rules), lands, creatures)]
    /\ UNCHANGED <<searcher, played, lands_in_play, ranking>>

InitValidate ==
    /\ rules \in {Some(r) : r \in RulesSet}
    /\ choices = <<>>
    /\ deck_size = 1
    /\ limit = None
    /\ seed = None
    /\ observer = FALSE
    /\ InitSearch
    /\ InitSimulator

NextValidate == \E lands, creatures \in 0..MaxDeck : Validate(lands, creatures)

SpecValidate == InitValidate /\ [][NextValidate]_vars

\* ------------------------------------------------------------- the claims
RECURSIVE SumOver(_, _)
SumOver(f, S) ==
    IF S = {} THEN 0
    ELSE LET x == CHOOSE y \in S : TRUE IN f[x] + SumOver(f, S \ {x})

\* The deck-wide bounds of r hold of the totals: each configured bound is met.
RulesHold(r, lands, creatures) ==
    /\ (r.min_lands # None => lands >= Val(r.min_lands))
    /\ (r.max_lands # None => lands <= Val(r.max_lands))
    /\ (r.min_creatures # None => creatures >= Val(r.min_creatures))
    /\ (r.max_creatures # None => creatures <= Val(r.max_creatures))

\* Totals of a composition (a function from cards to counts).
DeckTotal(d) == SumOver(d, DOMAIN d)
DeckLands(d) == SumOver(d, {c \in DOMAIN d : is_land(c)})
DeckCreatures(d) == SumOver(d, {c \in DOMAIN d : is_creature(c)})

\* Totals of an assignment v of one count to each slot of cs.
SlotTotal(v) == SumOver(v, DOMAIN v)
SlotLands(cs, v) == SumOver(v, {i \in DOMAIN v : is_land(cs[i].card)})
SlotCreatures(cs, v) == SumOver(v, {i \in DOMAIN v : is_creature(cs[i].card)})

\* The legal assignments: one count per choice within its range, summing to
\* the deck size and meeting the rules.
LegalAssignments ==
    {v \in [1..Len(choices) -> 0..MaxCount] :
        /\ \A i \in 1..Len(choices) :
              choices[i].min_count <= v[i] /\ v[i] <= choices[i].max_count
        /\ SlotTotal(v) = deck_size
        /\ (rules # None =>
              RulesHold(Val(rules), SlotLands(choices, v), SlotCreatures(choices, v)))}

TrueCount == Cardinality(LegalAssignments)

DistinctCards ==
    \A i, j \in 1..Len(choices) : choices[i].card = choices[j].card => i = j

\* The composition of an assignment, for pairwise distinct cards.
Composition(v) ==
    [c \in {choices[i].card : i \in 1..Len(choices)} |->
        v[CHOOSE i \in 1..Len(choices) : choices[i].card = c]]

\* C1: every composition returned by brute_force_decks has counts summing to
\* deck_size, every card's count within that card's [min_count, max_count],
\* and land and creature totals that satisfy the DeckRules, if any.
C1_ReturnedDecksAreLegal ==
    \A n \in 1..Len(decks) :
        LET d == decks[n]
        IN /\ DeckTotal(d) = deck_size
           /\ \A i \in 1..Len(choices) :
                 /\ choices[i].min_count <= d[choices[i].card]
                 /\ d[choices[i].card] <= choices[i].max_count
           /\ (rules # None => RulesHold(Val(rules), DeckLands(d), DeckCreatures(d)))

\* C2: with no limit and pairwise distinct cards, the search returns every
\* legal composition exactly once, whatever the seed.
C2_AllLegalExactlyOnce ==
    (pc = "done" /\ limit = None /\ DistinctCards) =>
        /\ {decks[n] : n \in 1..Len(decks)} = {Composition(v) : v \in LegalAssignments}
        /\ \A m, n \in 1..Len(decks) : decks[m] = decks[n] => m = n

C2_Witness ==
    /\ pc = "done" /\ limit = None /\ DistinctCards
    /\ rules # None /\ Val(rules).max_lands # None /\ Val(rules).min_creatures # None
    /\ Len(choices) = MaxChoices
    /\ shuffled_choices # choices
    /\ Len(decks) >= 2
    /\ Len(decks) < Cardinality({v \in [1..Len(choices) -> 0..MaxCount] :
                                   /\ \A i \in 1..Len(choices) :
                                         /\ choices[i].min_count <= v[i]
                                         /\ v[i] <= choices[i].max_count
                                   /\ SlotTotal(v) = deck_size})

\* C3: whenever count_possible_decks reports an exact total, the total is the
\* number of compositions the search returns without a limit.
C3_ExactCountMatchesSearch ==
    (deck_count # None /\ limit = None /\ ~Val(deck_count).result.estimated) =>
        Val(deck_count).result.total = Len(decks)

C3_Witness ==
    /\ deck_count # None /\ limit = None /\ ~Val(deck_count).result.estimated
    /\ rules # None /\ Val(rules).max_lands = Some(0)
    /\ \E i \in 1..Len(choices) : is_land(choices[i].card) /\ choices[i].max_count > 0
    /\ Val(deck_count).result.total >= 1
    /\ Len(decks) >= 1

\* C4: a true count above estimate_cutoff is reported as estimated with
\* total = estimate_cutoff, with and without rules; total never exceeds
\* estimate_cutoff.
C4_CountCapsAtCutoff ==
    deck_count # None =>
        LET r == Val(deck_count).result
            cutoff == Val(deck_count).cutoff
        IN /\ r.total <= cutoff
           /\ (TrueCount > cutoff => r.estimated /\ r.total = cutoff)

C4_Witness ==
    /\ deck_count # None
    /\ rules # None
    /\ TrueCount > Val(deck_count).cutoff
    /\ Val(deck_count).cutoff > 1
    /\ Val(deck_count).result.estimated

\* C5: the bound pair brackets the true count: an exact result has
\* lower_bound = upper_bound = total = true count, an estimate has
\* lower_bound = estimate_cutoff, upper_bound = 2 * estimate_cutoff and
\* lower_bound <= true count <= upper_bound.
C5_BoundsBracketTrueCount ==
    deck_count # None =>
        LET r == Val(deck_count).result
            cutoff == Val(deck_count).cutoff
        IN IF r.estimated
           THEN /\ r.lower_bound = cutoff
                /\ r.upper_bound = 2 * cutoff
                /\ r.lower_bound <= TrueCount
                /\ TrueCount <= r.upper_bound
           ELSE /\ r.lower_bound = r.total
                /\ r.upper_bound = r.total
                /\ r.total = TrueCount

\* C6: with limit L the search never holds more than L compositions and
\* returns exactly min(L, number of legal assignments) of them; L = 0
\* returns none.
C6_LimitIsExact ==
    limit # None =>
        /\ counter <= Val(limit)
        /\ Len(decks) <= Val(limit)
        /\ Len(decks) = counter
        /\ (pc = "done" => Len(decks) = Min(Val(limit), TrueCount))

C6_Witness ==
    /\ pc = "done" /\ limit # None
    /\ Val(limit) > 0
    /\ TrueCount > Val(limit)
    /\ Len(decks) = Val(limit)

\* C7: two invocations with the same arguments and the same seed (not None)
\* return the same compositions in the same order.
C7_SameSeedSameResult ==
    (pc = "done" /\ prev_decks # None /\ seed # None) => decks = Val(prev_decks)

C7_Witness ==
    /\ pc = "done" /\ prev_decks # None /\ seed # None
    /\ limit # None
    /\ Len(decks) >= 2
    /\ Len(decks) < TrueCount
    /\ shuffled_choices # choices

\* The deck size cannot be reached: it is below the sum of the minima, above
\* the sum of the maxima, or no assignment meets the rules.
Unreachable ==
    \/ deck_size < SumOver([i \in 1..Len(choices) |-> choices[i].min_count],
                           1..Len(choices))
    \/ deck_size > SumOver([i \in 1..Len(choices) |-> choices[i].max_count],
                           1..Len(choices))
    \/ LegalAssignments = {}

\* C8: for an unreachable deck size the search returns the empty list and the
\* count is total 0, not estimated.
C8_UnreachableIsEmpty ==
    (pc = "done" /\ Unreachable) =>
        /\ decks = <<>>
        /\ (deck_count # None =>
              /\ Val(deck_count).result.total = 0
              /\ ~Val(deck_count).result.estimated)

C8_Witness ==
    /\ pc = "done"
    /\ Unreachable
    /\ deck_count # None
    /\ rules # None
    /\ limit = None
    /\ deck_size >= SumOver([i \in 1..Len(choices) |-> choices[i].min_count],
                            1..Len(choices))
    /\ deck_size <= SumOver([i \in 1..Len(choices) |-> choices[i].max_count],
                            1..Len(choices))
    /\ Len(choices) = MaxChoices

C10_ProgressRateLimited ==
    \A i, j \in 1..Len(calls) :
        (i < j /\ ~calls[i].force /\ ~calls[j].force) => calls[j].at - calls[i].at >= 1

\* ------------------------------------------------- payment planner claims
\* The colors a land can pay, as a set: what it produces, or C when it
\* produces nothing.
ColorsOfLand(land) ==
    IF produced_mana(land.card) = <<>> THEN {"C"}
    ELSE {produced_mana(land.card)[k] : k \in DOMAIN produced_mana(land.card)}

\* There is an assignment of pairwise distinct untapped lands to the colored
\* symbols and to the units of generic cost, each symbol getting a land
\* that can pay it.
AssignmentExists(symbols, generic, lands) ==
    LET untapped == {i \in DOMAIN lands : ~lands[i].tapped}
        n == Len(symbols) + generic
    IN \E f \in [1..n -> untapped] :
          /\ \A a, b \in 1..n : a # b => f[a] # f[b]
          /\ \A k \in 1..Len(symbols) : symbols[k] \in ColorsOfLand(lands[f[k]])

\* What a spell costs beyond its symbols: a card that has neither symbols nor
\* a generic cost is paid at its converted mana cost.
GenericToPay(card) ==
    IF mana_cost_symbols(card) = <<>> /\ generic_cost(card) = 0
    THEN mana_cost(card)
    ELSE generic_cost(card)

\* C11 as stated: _can_pay_for_spell is true exactly when distinct untapped
\* lands can be assigned to the card's colored symbols and to the units of
\* its generic_cost.
C11_CanPayIffAssignmentOfPrintedCost ==
    last_call.op = "can_pay" =>
        (last_call.result <=>
            AssignmentExists(mana_cost_symbols(last_call.card),
                             generic_cost(last_call.card), last_call.before))

\* C11 amended: _can_pay_for_spell is true exactly when distinct untapped
\* lands can be assigned to the card's colored symbols and to the units of
\* the generic cost the planner is given, which is the converted mana cost
\* for a card without symbols and without generic cost; the first-fit
\* backtracking misses no assignment.
C11_CanPayIffAssignment ==
    last_call.op = "can_pay" =>
        (last_call.result <=>
            AssignmentExists(mana_cost_symbols(last_call.card),
                             GenericToPay(last_call.card), last_call.before))

\* The first land that fits the first symbol is the only one that fits the
\* second: the planner has to revise its first choice.
C11_Witness ==
    /\ last_call.op = "can_pay"
    /\ last_call.result
    /\ last_call.card = "Charm"
    /\ last_call.before = <<LandPermanent("Grove", FALSE),
                            LandPermanent("Forest", FALSE),
                            LandPermanent("Wastes", FALSE)>>

\* The lands whose tapped flag a payment changed.
TappedByCall ==
    {i \in DOMAIN lands_in_play :
        lands_in_play[i].tapped # last_call.before[i].tapped}

PaymentTaps(n) ==
    /\ Cardinality(TappedByCall) = n
    /\ Len(Val(last_call.result)) = n
    /\ \A i \in TappedByCall :
          ~last_call.before[i].tapped /\ lands_in_play[i].tapped
    /\ Len(lands_in_play) = Len(last_call.before)
    /\ \A i \in DOMAIN lands_in_play :
          lands_in_play[i].card = last_call.before[i].card

\* C12 as stated: a successful _pay_for_spell taps exactly (number of colored
\* symbols + generic_cost) lands, all untapped before, and changes no other.
C12_PaymentTapsPrintedCost ==
    (last_call.op = "pay" /\ last_call.result # None) =>
        PaymentTaps(Len(mana_cost_symbols(last_call.card))
                    + generic_cost(last_call.card))

\* C12 amended: a successful _pay_for_spell taps exactly (number of colored
\* symbols + generic cost given to the planner) lands, where a card without
\* symbols and without generic cost has its converted mana cost as generic
\* cost; each was untapped before, each is reported once, and no other land
\* changes.
C12_PaymentTapsExactly ==
    (last_call.op = "pay" /\ last_call.result # None) =>
        PaymentTaps(Len(mana_cost_symbols(last_call.card))
                    + GenericToPay(last_call.card))

\* A payment of two symbols and one generic unit with a tapped land and a
\* spare untapped land around.
C12_Witness ==
    /\ last_call.op = "pay"
    /\ last_call.result # None
    /\ last_call.card = "Seer"
    /\ Len(last_call.before) = 3
    /\ \A i \in 1..3 : ~last_call.before[i].tapped
    /\ \E i \in 1..3 : ~lands_in_play[i].tapped

\* C13: the probe _can_pay_for_spell changes no tapped flag, and neither does
\* a _pay_for_spell that returns None; the lands change only with a plan.
C13_NoPlanNoChange ==
    /\ last_call.op = "can_pay" => lands_in_play = last_call.before
    /\ (last_call.op = "pay" /\ last_call.result = None) =>
          lands_in_play = last_call.before
    /\ (last_call.op = "pay" /\ lands_in_play # last_call.before) =>
          last_call.result # None

\* A payment that fails for its color although untapped lands are there.
C13_Witness ==
    /\ last_call.op = "pay"
    /\ last_call.result = None
    /\ last_call.card = "Bolt"
    /\ \E i \in DOMAIN last_call.before : ~last_call.before[i].tapped

\* -------------------------------------------------------- simulator claims
\* A spell can be paid from the lands: the assignment of C11.
Affordable(card, lands) ==
    AssignmentExists(mana_cost_symbols(card), GenericToPay(card), lands)

\* The card the next iteration of the cast loop considers.
Considered == hand[Head(cast_plan) + 1]

CastStep == step = "cast" /\ cast_plan # <<>>
EndTurnStep == step = "cast" /\ cast_plan = <<>>
SpellWasCast == game_result'.spells_cast = game_result.spells_cast + 1

\* C14: a land with enters_tapped is created tapped and stays tapped, paying
\* for nothing, for the rest of the turn it is played in; the untap step of
\* the next turn untaps it, and a spell of one colored symbol that it
\* produces, when attempted with it untapped, is paid.
C14_EntersTappedWaitsATurn ==
    [][/\ (step = "land" /\ Len(lands_in_play') > Len(lands_in_play)) =>
             (enters_tapped(lands_in_play'[Len(lands_in_play')].card) =>
                 lands_in_play'[Len(lands_in_play')].tapped)
       /\ (step = "cast" /\ this_turn.land_played
           /\ enters_tapped(lands_in_play[Len(lands_in_play)].card)) =>
             /\ lands_in_play[Len(lands_in_play)].tapped
             /\ lands_in_play'[Len(lands_in_play)].tapped
             /\ last_call'.op = "pay" =>
                   last_call'.before[Len(lands_in_play)].tapped
       /\ step = "turn" =>
             \A i \in DOMAIN lands_in_play' : ~lands_in_play'[i].tapped
       /\ (CastStep /\ last_call'.op = "pay"
           /\ Len(mana_cost_symbols(Considered)) = 1
           /\ generic_cost(Considered) = 0
           /\ \E i \in DOMAIN lands_in_play :
                 /\ enters_tapped(lands_in_play[i].card)
                 /\ ~lands_in_play[i].tapped
                 /\ mana_cost_symbols(Considered)[1]
                       \in ColorsOfLand(lands_in_play[i])) =>
             SpellWasCast]_vars

\* In the second turn a spell was paid with a land that entered tapped in
\* the first.
C14_Witness ==
    /\ step = "cast"
    /\ turn = 2
    /\ last_call.op = "pay"
    /\ last_call.result # None
    /\ \E i \in TappedByCall :
          enters_tapped(lands_in_play[i].card) /\ i = 1

\* The cards the holding rule is about.
Holdable(card) ==
    /\ ~is_land(card)
    /\ ~is_creature(card)
    /\ tags(card) \cap {"counter", "card_draw", "removal"} = {}

CreatureOnBattlefield ==
    \E k \in DOMAIN battlefield : is_creature(battlefield[k])

C16_ColorScrewOncePerTurn ==
    [][/\ EndTurnStep =>
             LET castable == \E k \in DOMAIN hand' :
                                /\ ~is_land(hand'[k])
                                /\ Affordable(hand'[k], lands_in_play')
                 untapped == \E i \in DOMAIN lands_in_play' :
                                ~lands_in_play'[i].tapped
             IN game_result'.color_screw_turns - game_result.color_screw_turns =
                   IF \/ castable /\ this_turn.spells_cast = 0
                      \/ ~castable /\ untapped
                   THEN 1 ELSE 0
       /\ (~EndTurnStep /\ step \in {"turn", "land", "cast"}) =>
             game_result'.color_screw_turns = game_result.color_screw_turns
       /\ step \in {"turn", "land", "cast"} =>
             game_result'.color_screw_turns <= turn']_vars

\* A turn was counted although a spell left in hand is castable: it was held
\* and nothing was cast.
C16_Witness ==
    /\ step \in {"turn", "done"}
    /\ turn >= 1
    /\ this_turn.spells_cast = 0
    /\ game_result.color_screw_turns = turn
    /\ \E k \in DOMAIN hand :
          ~is_land(hand[k]) /\ Affordable(hand[k], lands_in_play)

CountOf(l, x) == Cardinality({k \in DOMAIN l : l[k] = x})

\* C17: in the land drop of a turn, a hand that holds a land loses exactly
\* one land card, which becomes the newest land permanent, and
\* land_drops_missed stays; a hand without a land is left alone and
\* land_drops_missed goes up by 1.  No other step of a game changes the number
\* of land permanents or land_drops_missed, so after every land drop their
\* sum is the number of the turn.
C17_OneLandDropOrMiss ==
    [][/\ step = "land" =>
             IF \E k \in DOMAIN hand : is_land(hand[k])
             THEN LET played_land == lands_in_play'[Len(lands_in_play')].card
                  IN /\ Len(lands_in_play') = Len(lands_in_play) + 1
                     /\ SubSeq(lands_in_play', 1, Len(lands_in_play)) = lands_in_play
                     /\ is_land(played_land)
                     /\ Len(hand') = Len(hand) - 1
                     /\ \A k \in DOMAIN hand :
                           CountOf(hand', hand[k]) =
                              CountOf(hand, hand[k])
                                 - (IF hand[k] = played_land THEN 1 ELSE 0)
                     /\ game_result'.land_drops_missed
                           = game_result.land_drops_missed
             ELSE /\ lands_in_play' = lands_in_play
                  /\ hand' = hand
                  /\ game_result'.land_drops_missed
                        = game_result.land_drops_missed + 1
       /\ step \in {"turn", "cast"} =>
             /\ Len(lands_in_play') = Len(lands_in_play)
             /\ game_result'.land_drops_missed = game_result.land_drops_missed
       /\ step \in {"land", "cast"} =>
             Len(lands_in_play') + game_result'.land_drops_missed = turn']_vars

\* A game of three turns with land drops made and missed, from a hand that
\* held two copies of a land.
C17_Witness ==
    /\ step = "done"
    /\ turn = 3
    /\ Len(lands_in_play) = 2
    /\ game_result.land_drops_missed = 1

\* C18: simulating a game never raises, whatever the size of the deck.
C18_SimulateNeverRaises == step # "IndexError"

RECURSIVE SumTrace(_, _)
SumTrace(traces, field) ==
    IF traces = <<>> THEN 0
    ELSE (CASE field = "spells_cast" -> Head(traces).spells_cast
            [] field = "mana_spent" -> Head(traces).mana_spent
            [] field = "color_screw" -> IF Head(traces).color_screw THEN 1 ELSE 0
            [] field = "land_missed" -> IF Head(traces).land_missed THEN 1 ELSE 0)
         + SumTrace(Tail(traces), field)

\* C19: simulate_with_trace, run on the deck, the turn count and the
\* generator state of a simulate, ends with the same counters and the same
\* generator state, and its per-turn spells cast, mana spent, color screw and
\* missed land drops add up to the counters of the result.
C19_TraceChangesNothing ==
    (step = "done" /\ first_run # None) =>
        /\ capture_trace
        /\ game_result = Val(first_run).result
        /\ self_rng = Val(first_run).rng
        /\ Len(trace_turns) = turns
        /\ SumTrace(trace_turns, "spells_cast") = game_result.spells_cast
        /\ SumTrace(trace_turns, "mana_spent") = game_result.mana_spent
        /\ SumTrace(trace_turns, "color_screw") = game_result.color_screw_turns
        /\ SumTrace(trace_turns, "land_missed") = game_result.land_drops_missed

\* A traced game in which spells were cast for more mana than their number,
\* a land drop was missed and a turn was color screwed.
C19_Witness ==
    /\ step = "done"
    /\ first_run # None
    /\ game_result.spells_cast >= 2
    /\ game_result.mana_spent > game_result.spells_cast
    /\ game_result.land_drops_missed >= 1
    /\ game_result.color_screw_turns >= 1

\* ---------------------------------------------------------- ranking claim
\* The summaries of a sequence that have a given score, in their order.
WithScore(l, v) == SelectSeq(l, LAMBDA x : x.average_score = v)

\* The candidates that pass the deck rules, as summaries, in input order.
Accepted ==
    LET kept == SelectSeq(candidates,
                    LAMBDA c : rules = None
                               \/ RulesHold(Val(rules), lands_of(c.deck),
                                            creatures_of(c.deck)))
    IN [k \in DOMAIN kept |->
           [deck |-> kept[k].deck, average_score |-> kept[k].average_score]]

\* C20: rank_decks returns the summaries in non-increasing average_score,
\* and for every score the summaries with that score come in the order their
\* decks had in the input.
C20_RankedDescendingStable ==
    ranked # None =>
        /\ \A i, j \in DOMAIN Val(ranked) :
              i < j => Val(ranked)[i].average_score >= Val(ranked)[j].average_score
        /\ \A v \in 0..MaxScore :
              WithScore(Val(ranked), v) = WithScore(Accepted, v)

\* Two different decks tie, above a third deck that came first.
C20_Witness ==
    /\ ranked # None
    /\ Len(Val(ranked)) = 3
    /\ Val(ranked)[1].average_score = Val(ranked)[2].average_score
    /\ Val(ranked)[1].deck # Val(ranked)[2].deck
    /\ Val(ranked)[3] = [deck |-> candidates[1].deck,
                         average_score |-> candidates[1].average_score]
    /\ Val(ranked)[3].average_score < Val(ranked)[2].average_score

\* ------------------------------------------------- rank_decks: deck rules
\* Whether a candidate's own land and creature totals satisfy the rules.
PassesRules(c) ==
    rules = None \/ RulesHold(Val(rules), lands_of(c.deck), creatures_of(c.deck))

\* C21: what rank_decks returns holds one summary for every input deck whose
\* land and creature totals satisfy config.deck_rules and none for any other
\* deck; without rules every input deck has exactly one summary.
C21_SummariesAreTheAcceptedDecks ==
    ranked # None =>
        \A d \in RankedDecks, v \in 0..MaxScore :
           LET x == [deck |-> d, average_score |-> v]
           IN CountOf(Val(ranked), x) =
                 IF PassesRules(x) THEN CountOf(candidates, x) ELSE 0

\* Rules with a creature bound have rejected one deck and accepted two.
C21_Witness ==
    /\ ranked # None
    /\ rules # None
    /\ Val(rules).max_creatures # None
    /\ Val(rules).min_lands = None /\ Val(rules).max_lands = None
    /\ Len(candidates) = 3
    /\ Len(Val(ranked)) = 2
    /\ \E i \in DOMAIN candidates : ~PassesRules(candidates[i])

\* --------------------------------------------------- rank_decks: progress
\* The number of decks left after the DeckRules filter.
RankTotal == Len(SelectSeq(candidates, PassesRules))

\* C22: with a progress observer, the first call of rank_decks is (0, total)
\* and is made before any deck is simulated, the last call when rank_decks
\* returns is (total, total), every call's completed value is at most total
\* and the completed values never decrease, total being the number of decks
\* that passed the DeckRules filter.
C22_RankProgressFirstAndLast ==
    pc # "init" =>
        /\ calls # <<>>
        /\ calls[1].completed = 0 /\ calls[1].total = RankTotal
        /\ processed = 0 => Len(calls) = 1
        /\ \A i \in DOMAIN calls :
              /\ calls[i].total = RankTotal
              /\ calls[i].completed <= RankTotal
              /\ calls[i].completed <= processed
        /\ \A i, j \in DOMAIN calls :
              i < j => calls[i].completed <= calls[j].completed
        /\ pc = "done" =>
              /\ processed = RankTotal
              /\ calls[Len(calls)].completed = RankTotal

\* Three decks were given, one was filtered out, and the clock made the
\* observer hear of the first of the two simulated decks as well.
C22_Witness ==
    /\ pc = "done"
    /\ Len(candidates) = 3
    /\ RankTotal = 2
    /\ Len(calls) = 3
    /\ calls[2].completed = 1

\* ------------------------------------------------------ DeckRules.validate
\* C23: validate(lands, creatures) returns False exactly when lands is below
\* min_lands, lands is above max_lands, creatures is below min_creatures or
\* creatures is above max_creatures for a bound that is not None (a bound
\* of 0 is a bound); the call leaves the rules as they were.
C23_ValidateIffNoConfiguredBoundViolated ==
    [][last_call'.op = "validate" =>
          LET r == Val(rules)
              l == last_call'.lands
              c == last_call'.creatures
              violated(b, bad(_)) == b # None /\ bad(Val(b))
          IN /\ last_call'.result = FALSE <=>
                   \/ violated(r.min_lands, LAMBDA m : l < m)
                   \/ violated(r.max_lands, LAMBDA m : l > m)
                   \/ violated(r.min_creatures, LAMBDA m : c < m)
                   \/ violated(r.max_creatures, LAMBDA m : c > m)
             /\ rules' = rules]_vars

\* A maximum of 0 creatures has rejected a deck with one creature, and
\* the absent bounds did not matter.
C23_Witness ==
    /\ last_call.op = "validate"
    /\ last_call.result = FALSE
    /\ last_call.lands = 2 /\ last_call.creatures = 1
    /\ Val(rules) = [min_lands |-> None, max_lands |-> None,
                     min_creatures |-> None, max_creatures |-> Some(0)]

\* ------------------------------------------------------ turn structure
\* The hand indices of the non-land cards.
SpellIndices(h) == {i \in 0..(Len(h) - 1) : ~is_land(h[i + 1])}

\* What each step of a turn does to the position in the game: untap and
\* draw, then the land drop, then the cast step, then the next turn or the end.
TurnOrder ==
    /\ step = "turn" =>
          /\ step' = "land"
          /\ turn' = turn + 1
          /\ \A i \in DOMAIN lands_in_play' : ~lands_in_play'[i].tapped
          /\ IF library = <<>>
             THEN library' = <<>> /\ hand' = hand
             ELSE /\ library' = SubSeq(library, 1, Len(library) - 1)
                  /\ hand' = Append(hand, library[Len(library)])
    /\ step = "land" =>
          /\ step' = "cast"
          /\ turn' = turn
          /\ {cast_plan'[k] : k \in DOMAIN cast_plan'} = SpellIndices(hand')
    /\ step = "cast" =>
          /\ turn' = turn
          /\ step' \in {"cast", "turn", "done"}
          /\ step' = "turn" => cast_plan = <<>> /\ turn < turns
          /\ step' = "done" => cast_plan = <<>> /\ turn = turns
          /\ last_call'.op = "pay" => last_call'.before = lands_in_play

\* The game is between its opening hand and its return.
Playing == step \in {"turn", "land", "cast"}

\* A bound on the steps _simulate has left: the turns to come, each with an
\* untap-and-draw, a land drop, a cast attempt per card in hand and an end.
StepsLeft ==
    LET per_turn == MaxCards + 4
    IN (turns - turn) * per_turn
       + (CASE step = "land" -> per_turn - 1
            [] step = "cast" -> Len(cast_plan) + 1
            [] OTHER -> 0)

\* C24: a game that has its opening hand ends, and ends after exactly
\* `turns` turns: every step brings the end nearer, the start of a turn
\* and the end of a turn can always be taken, and at the end turn = turns.
\* A turn that starts with an empty library draws nothing, raises nothing
\* and goes on to its land drop.  Every turn untaps and draws, then drops a
\* land, then casts, the cast plan covering every non-land card in hand
\* after the draw and the payment seeing every land in play after the land
\* drop.
C24_TerminatesAfterTurnsInOrder ==
    /\ [][TurnOrder /\ (Playing => StepsLeft' < StepsLeft)]_vars
    /\ [](step = "done" => turn = turns)
    /\ [](Playing => StepsLeft > 0 /\ turn <= turns)
    /\ [](step = "turn" => ENABLED BeginTurn)
    /\ [](step = "cast" /\ cast_plan = <<>> => ENABLED EndTurn)

\* A traced game of MaxTurns turns: in turn 1 a spell was cast, paid by the
\* land played in that turn, and the last turn began with an empty library.
C24_Witness ==
    /\ step = "done"
    /\ turn = MaxTurns
    /\ Len(trace_turns) = MaxTurns
    /\ trace_turns[1].spells_cast >= 1
    /\ trace_turns[1].draw # None
    /\ trace_turns[MaxTurns].draw = None
    /\ library = <<>>


\* ------------------------------------------------------------ land choice
\* The number of colors a land can tap for; a land without produced_mana
\* taps for colorless mana.
ColorsProduced(card) ==
    IF produced_mana(card) = <<>> THEN 1
    ELSE Cardinality({produced_mana(card)[k] : k \in DOMAIN produced_mana(card)})

\* Land a has a higher priority than land b.
Outranks(a, b) ==
    \/ ~enters_tapped(a) /\ enters_tapped(b)
    \/ enters_tapped(a) = enters_tapped(b) /\ ColorsProduced(a) > ColorsProduced(b)

\* The first of a sequence of lands that no other of them outranks.
FirstBest(lands) ==
    lands[CHOOSE i \in DOMAIN lands :
             /\ \A j \in DOMAIN lands : ~Outranks(lands[j], lands[i])
             /\ \A j \in 1..(i - 1) : Outranks(lands[i], lands[j])]

\* C25: the land drop plays a land of the hand that no land of the hand
\* outranks, an untapped land outranking a tapped one and, of two lands that
\* enter alike, the one producing more colors outranking the other; which
\* land it is depends on the lands in hand alone.  Without a land in hand
\* nothing is played.
C25_LandChoice ==
    [][step = "land" =>
          LET lands == SelectSeq(hand, is_land)
          IN IF lands = <<>>
             THEN hand' = hand /\ lands_in_play' = lands_in_play
             ELSE LET dropped == FirstBest(lands)
                  IN /\ lands_in_play' =
                          Append(lands_in_play,
                                 [card |-> dropped, tapped |-> enters_tapped(dropped)])
                     /\ \A c \in {hand[k] : k \in DOMAIN hand} :
                           CountOf(hand', c) =
                              CountOf(hand, c) - (IF c = dropped THEN 1 ELSE 0)
                     /\ SelectSeq(hand', LAMBDA c : ~is_land(c))
                           = SelectSeq(hand, LAMBDA c : ~is_land(c))]_vars

\* The untapped two-color land was dropped from a hand that begins with a
\* spell and also holds an untapped one-color land, a land without
\* produced_mana and a tapped two-color land.
C25_Witness ==
    /\ step = "cast"
    /\ lands_in_play = <<[card |-> "Taiga", tapped |-> FALSE]>>
    /\ hand[1] = "Bolt"
    /\ \A c \in {"Forest", "Wastes", "Grove"} : \E k \in DOMAIN hand : hand[k] = c


\* ------------------------------------------------------------ cast order
\* The elements of a sequence, as a set.
Elements(l) == {l[k] : k \in DOMAIN l}

\* The cards of the hand at the indices that were not cast, in hand order.
Uncast(h, casted) ==
    LET keep == SelectSeq([k \in DOMAIN h |-> k - 1],
                          LAMBDA i : i \notin Elements(casted))
    IN [k \in DOMAIN keep |-> h[keep[k] + 1]]

\* C26: the cast step attempts the non-land cards of the hand, each once,
\* in non-increasing mana_cost: the plan made after the land drop holds each
\* of their indices once, the card attempted costs at least as much as every
\* card still to be attempted, and no index is attempted again.  A card
\* that is held or cannot be paid is not cast, and at the end of the turn
\* the hand is what it was without the cards that were cast.
C26_CastOrder ==
    [][/\ step = "land" =>
             /\ Elements(cast_plan') = SpellIndices(hand')
             /\ Len(cast_plan') = Cardinality(SpellIndices(hand'))
       /\ CastStep =>
             LET idx == Head(cast_plan)
             IN /\ \A j \in Elements(Tail(cast_plan)) :
                      mana_cost(hand[j + 1]) <= mana_cost(Considered)
                /\ idx \notin Elements(Tail(cast_plan)) \cup Elements(casted_indices)
                /\ cast_plan' = Tail(cast_plan)
                /\ hand' = hand
                /\ casted_indices' \in {casted_indices, Append(casted_indices, idx)}
                /\ (\/ Holdable(Considered) /\ ~CreatureOnBattlefield
                    \/ ~Affordable(Considered, lands_in_play))
                      => casted_indices' = casted_indices /\ battlefield' = battlefield
       /\ EndTurnStep => hand' = Uncast(hand, casted_indices)]_vars

\* At the end of a cast step a spell was cast while a more expensive one,
\* attempted before it, and a held one stay in hand.
C26_Witness ==
    /\ EndTurnStep
    /\ \E i \in Elements(casted_indices) :
          \E j \in SpellIndices(hand) \ Elements(casted_indices) :
             mana_cost(hand[j + 1]) > mana_cost(hand[i + 1])
    /\ \E j \in SpellIndices(hand) \ Elements(casted_indices) :
          Holdable(hand[j + 1])


\* ------------------------------------------------- progress of a short search
\* C27: when brute_force_decks returns fewer decks than a limit that was
\* given, the completed value of its last progress call is the limit (as
\* test_brute_force_reports_progress asserts for limit 3 and 2 decks).
C27_FinalCompletedIsLimit ==
    (pc = "done" /\ limit # None /\ Val(limit) > Len(decks)) =>
        calls[Len(calls)].completed = Val(limit)


\* ------------------------------------------- counting under absent rules
\* A DeckRules with no bound configured.
AbsentRules ==
    [min_lands |-> None, max_lands |-> None, min_creatures |-> None,
     max_creatures |-> None]

\* C29: count_possible_decks under a DeckRules without any bound returns
\* the DeckCount that the call with rules = None returns for the same
\* choices, deck size and estimate_cutoff.
C29_AbsentRulesCountAsNoRules ==
    (deck_count # None /\ rules = Some(AbsentRules)) =>
        Val(deck_count).result =
           count_possible_decks(choices, deck_size, None, Val(deck_count).cutoff)


\* ------------------------------------------------------ card conservation
\* The cards of the land permanents.
LandCards == [k \in DOMAIN lands_in_play |-> lands_in_play[k].card]

\* The cards that are in hand: during the cast loop the cards already cast
\* are still listed in the hand and leave it when the loop is over.
InHand == IF step = "cast" THEN Uncast(hand, casted_indices) ELSE hand

\* An opening hand was dealt.
Dealt == step \in {"turn", "land", "cast", "done"}

\* C28: from the opening hand on, the cards of library, hand, land
\* permanents and battlefield are together the cards of the deck, each as
\* often as the deck holds it.  The indices of the cast plan and of the cast
\* cards are indices of non-land cards of the hand, the cards cast this turn
\* are the newest cards of the battlefield in the order they were cast, a
\* cast puts the selected card on the battlefield once, and the end of the
\* turn takes each cast card out of the hand once.
C28_CardsAreConserved ==
    /\ [](Dealt =>
            LET zones == library \o InHand \o LandCards \o battlefield
            IN /\ Len(zones) = deck_total(deck)
               /\ \A k \in DOMAIN deck :
                     CountOf(zones, deck[k].card) = deck[k].count)
    /\ [](step = "cast" =>
            /\ Elements(cast_plan) \cup Elements(casted_indices)
                  \subseteq SpellIndices(hand)
            /\ Elements(cast_plan) \cap Elements(casted_indices) = {}
            /\ Len(casted_indices) = Cardinality(Elements(casted_indices))
            /\ Len(casted_indices) <= Len(battlefield)
            /\ \A k \in DOMAIN casted_indices :
                  battlefield[Len(battlefield) - Len(casted_indices) + k]
                     = hand[casted_indices[k] + 1])
    /\ [][/\ (CastStep /\ SpellWasCast) =>
                /\ battlefield' = Append(battlefield, Considered)
                /\ casted_indices' = Append(casted_indices, Head(cast_plan))
                /\ hand' = hand
          /\ (CastStep /\ ~SpellWasCast) =>
                UNCHANGED <<battlefield, casted_indices, hand>>
          /\ EndTurnStep =>
                /\ battlefield' = battlefield
                /\ Len(hand') = Len(hand) - Len(casted_indices)
                /\ \A c \in Elements(hand) :
                      CountOf(hand', c) =
                         CountOf(hand, c)
                         - Cardinality({k \in DOMAIN casted_indices :
                                           hand[casted_indices[k] + 1] = c})]_vars

\* A turn is over in which two different cards were cast, the one at the
\* lower hand index first.
C28_Witness ==
    /\ step \in {"turn", "done"}
    /\ turn >= 1
    /\ Len(casted_indices) = 2
    /\ casted_indices[1] < casted_indices[2]
    /\ battlefield[Len(battlefield)] # battlefield[Len(battlefield) - 1]


\* ----------------------------------------------------------- mana accounting
\* The lands a step taps.
TappedByStep ==
    Cardinality({i \in DOMAIN lands_in_play :
                    ~lands_in_play[i].tapped /\ lands_in_play'[i].tapped})

\* C30: a cast raises mana_spent by the number of lands it taps, and the
\* mana spent in a turn is at most the number of lands in play.
C30_ManaSpentIsBackedByLands ==
    /\ [][(CastStep /\ SpellWasCast) =>
             /\ game_result'.mana_spent - game_result.mana_spent = TappedByStep
             /\ this_turn'.mana_spent - this_turn.mana_spent = TappedByStep]_vars
    /\ [](step = "cast" => this_turn.mana_spent <= Len(lands_in_play))


====
